---- MODULE Spec2Model ----
\* Profile lifecycle manager (internal/config/profile.go) and backup/restore
\* subsystem (internal/backup) of cdp, modelled over an explicit directory tree.
\*
\* A string is a sequence of one-character strings, a path is a sequence of
\* path components (each a string in that sense), and the storage root
\* (Config.ProfilesDir) is the empty path.
EXTENDS Integers, Sequences, FiniteSets, TLC

VARIABLES
    fs,              \* directory tree below the storage root: path -> node
    CurrentProfile,  \* Config.CurrentProfile ("" is the empty string <<>>)
    backups,         \* backup directory: archive file name -> tar entries
    srcExists,       \* whether the external import source directory still exists
    now,             \* wall clock, in seconds after BaseTime
    last,            \* the last call: operation, arguments, error, return value
    snap,            \* history: archive file name -> what Backup was given and saw
    budget,          \* number of calls the explored run may still make
    input,           \* ValidateName harness: the string under test
    verdict,         \* ValidateName harness: the error it returned
    configFile,      \* the persisted config file: whether it is there, its YAML
    procs            \* processes inside UpdateLastUsed: position and locals

vars == <<fs, CurrentProfile, backups, srcExists, now, last, snap, budget, input, verdict,
          configFile, procs>>

-----------------------------------------------------------------------------
\* Bounds of the model

MaxClock == 2
MaxUsage == 1
MaxBackups == 1
MaxTestLen == 2
MaxSteps == 4
MaxBackupSteps == 5
MaxRestoreSteps == 4
MaxListSteps == 4
MaxCleanupSteps == 4
MaxDays == 1
MaxArchiveSteps == 4
MaxTemplateSteps == 3
MaxConcurrentSteps == 2
MaxConfigSteps == 4
MaxExtractSteps == 3
MaxFrameSteps == 3

-----------------------------------------------------------------------------
\* Strings and characters

Lower == {"a","b","c","d","e","f","g","h","i","j","k","l","m",
          "n","o","p","q","r","s","t","u","v","w","x","y","z"}
Upper == {"A","B","C","D","E","F","G","H","I","J","K","L","M",
          "N","O","P","Q","R","S","T","U","V","W","X","Y","Z"}
Digit == {"0","1","2","3","4","5","6","7","8","9"}

\* Bytes in ascending order, for the characters the model uses
AsciiOrder ==
    <<" ", "!", "-", ".", "/", "0","1","2","3","4","5","6","7","8","9",
      "A","B","C","D","E","F","G","H","I","J","K","L","M",
      "N","O","P","Q","R","S","T","U","V","W","X","Y","Z", "_",
      "a","b","c","d","e","f","g","h","i","j","k","l","m",
      "n","o","p","q","r","s","t","u","v","w","x","y","z">>

CharCode(c) == CHOOSE i \in 1..Len(AsciiOrder) : AsciiOrder[i] = c

\* s < t in byte order (Go string comparison)
RECURSIVE StrLess(_, _)
StrLess(s, t) ==
    IF t = <<>> THEN FALSE
    ELSE IF s = <<>> THEN TRUE
    ELSE IF Head(s) = Head(t) THEN StrLess(Tail(s), Tail(t))
    ELSE CharCode(Head(s)) < CharCode(Head(t))

IsPrefix(p, q) == Len(p) <= Len(q) /\ SubSeq(q, 1, Len(p)) = p

HasSuffix(s, suf) ==
    Len(suf) <= Len(s) /\ SubSeq(s, Len(s) - Len(suf) + 1, Len(s)) = suf

TrimSuffix(s, suf) ==
    IF HasSuffix(s, suf) THEN SubSeq(s, 1, Len(s) - Len(suf)) ELSE s

\* strings.Split(s, sep) for a one-character separator
RECURSIVE SplitFrom(_, _, _)
SplitFrom(s, sep, cur) ==
    IF s = <<>> THEN <<cur>>
    ELSE IF Head(s) = sep THEN <<cur>> \o SplitFrom(Tail(s), sep, <<>>)
    ELSE SplitFrom(Tail(s), sep, Append(cur, Head(s)))

Split(s, sep) == SplitFrom(s, sep, <<>>)

\* strings.Join(parts, sep)
RECURSIVE JoinStr(_, _)
JoinStr(parts, sep) ==
    IF parts = <<>> THEN <<>>
    ELSE IF Len(parts) = 1 THEN parts[1]
    ELSE parts[1] \o <<sep>> \o JoinStr(Tail(parts), sep)

DigitChars == <<"0","1","2","3","4","5","6","7","8","9">>

\* n in decimal, zero-padded to w digits
RECURSIVE Digits(_, _)
Digits(n, w) ==
    IF w = 0 THEN <<>>
    ELSE Append(Digits(n \div 10, w - 1), DigitChars[(n % 10) + 1])

-----------------------------------------------------------------------------
\* Constants of the program

MetadataFileName == <<".","m","e","t","a","d","a","t","a",".","j","s","o","n">>
ClaudeConfigFile == <<".","c","l","a","u","d","e",".","j","s","o","n">>
ClaudeSettingsFile == <<"s","e","t","t","i","n","g","s",".","j","s","o","n">>
TarGzSuffix == <<".","t","a","r",".","g","z">>

MaxNameLen == 50

\* the character class of profileNamePattern
NameChars == Lower \cup Upper \cup Digit \cup {"_", "-"}

\* profileNamePattern.MatchString: ^[a-zA-Z0-9_-]+$
profileNamePattern(name) ==
    /\ Len(name) >= 1
    /\ \A i \in 1..Len(name) : name[i] \in NameChars

ValidateNameOffByOne(name) ==
    IF name = <<>> THEN "ValidationError"
    ELSE IF Len(name) >= MaxNameLen THEN "ValidationError"
    ELSE IF ~profileNamePattern(name) THEN "ValidationError"
    ELSE "nil"

ValidateName(name) ==
    IF name = <<>> THEN "ValidationError"
    ELSE IF Len(name) > MaxNameLen THEN "ValidationError"
    ELSE IF ~profileNamePattern(name) THEN "ValidationError"
    ELSE "nil"

-----------------------------------------------------------------------------
\* The directory tree

DirNode == [type |-> "dir"]
FileNode(data) == [type |-> "file", data |-> data]

EmptyObject == [kind |-> "json", obj |-> {}]
Raw(v) == [kind |-> "raw", v |-> v]
Meta(m) == [kind |-> "meta", m |-> m]

ZeroTime == 0

\* filepath.Clean, component by component: an empty one and "." are
\* dropped, ".." removes the component before it (none at the top of the
\* modelled tree)
RECURSIVE CleanParts(_, _)
CleanParts(acc, comps) ==
    IF comps = <<>> THEN acc
    ELSE LET c == Head(comps)
         IN  IF c = <<>> \/ c = <<".">> THEN CleanParts(acc, Tail(comps))
             ELSE IF c = <<".", ".">>
             THEN CleanParts(SubSeq(acc, 1, Len(acc) - 1), Tail(comps))
             ELSE CleanParts(Append(acc, c), Tail(comps))

\* filepath.Join(dir, name): the name is split at its separators and cleaned
Join(dir, name) == CleanParts(dir, Split(name, "/"))

ProfilesDir == <<>>

\* os.Stat(p) succeeds
Exists(f, p) == p \in DOMAIN f

IsDir(f, p) == Exists(f, p) /\ f[p].type = "dir"

Parent(p) == SubSeq(p, 1, Len(p) - 1)

\* os.RemoveAll(p)
RemoveAll(f, p) ==
    [q \in {r \in DOMAIN f : ~IsPrefix(p, r)} |-> f[q]]

\* os.MkdirAll(p) succeeds unless a component of p is a regular file
MkdirAllOK(f, p) ==
    \A i \in 0..Len(p) :
        LET q == SubSeq(p, 1, i) IN Exists(f, q) => f[q].type = "dir"

MkdirAll(f, p) ==
    [q \in DOMAIN f \cup {SubSeq(p, 1, i) : i \in 0..Len(p)} |->
        IF q \in DOMAIN f THEN f[q] ELSE DirNode]

\* os.WriteFile / os.Create followed by a full write: the parent must be a
\* directory and the target must not be one
WriteFileOK(f, p) ==
    /\ p # <<>>
    /\ IsDir(f, Parent(p))
    /\ ~IsDir(f, p)

WriteFile(f, p, data) ==
    [q \in DOMAIN f \cup {p} |-> IF q = p THEN FileNode(data) ELSE f[q]]

\* os.Rename(old, new) of a directory onto an absent name
RenameKeepingOld(f, old, new) ==
    LET moved == {q \in DOMAIN f : IsPrefix(old, q)}
        dest(q) == new \o SubSeq(q, Len(old) + 1, Len(q))
    IN  [q \in DOMAIN f \cup {dest(r) : r \in moved} |->
            IF q \in DOMAIN f THEN f[q]
            ELSE f[CHOOSE r \in moved : dest(r) = q]]

Rename(f, old, new) ==
    LET moved == {q \in DOMAIN f : IsPrefix(old, q)}
        dest(q) == new \o SubSeq(q, Len(old) + 1, Len(q))
    IN  [q \in (DOMAIN f \ moved) \cup {dest(r) : r \in moved} |->
            IF q \in DOMAIN f \ moved THEN f[q]
            ELSE f[CHOOSE r \in moved : dest(r) = q]]

\* the names os.ReadDir(p) returns (unordered)
Children(f, p) ==
    {q[Len(p) + 1] : q \in {r \in DOMAIN f : IsPrefix(p, r) /\ Len(r) = Len(p) + 1}}

\* the tree below p, with paths relative to p (p itself is the empty path)
SubTree(f, p) ==
    LET below == {q \in DOMAIN f : IsPrefix(p, q)}
    IN  [r \in {SubSeq(q, Len(p) + 1, Len(q)) : q \in below} |-> f[p \o r]]

\* the names in p, sorted in byte order (filepath.Walk reads them sorted)
RECURSIVE SortNames(_)
SortNames(S) ==
    IF S = {} THEN <<>>
    ELSE LET m == CHOOSE x \in S : \A y \in S \ {x} : StrLess(x, y)
         IN  <<m>> \o SortNames(S \ {m})

\* filepath.Join(dir, rel) for a slash-separated relative path
JoinPath(dir, rel) == CleanParts(dir, Split(rel, "/"))

-----------------------------------------------------------------------------
\* Profile metadata

\* loadMetadata succeeds: the metadata file is readable and parses
loadMetadataOK(f, profilePath) ==
    LET metadataPath == Join(profilePath, MetadataFileName)
    IN  /\ Exists(f, metadataPath)
        /\ f[metadataPath].type = "file"
        /\ f[metadataPath].data.kind = "meta"

NoFields == [k \in {} |-> k]

\* json.MarshalIndent of a ProfileMetadata: omitempty drops an empty
\* description, template and flag list, and never drops a time
Marshal(metadata) ==
    ("createdAt" :> metadata.CreatedAt)
    @@ ("lastUsed" :> metadata.LastUsed)
    @@ ("usageCount" :> metadata.UsageCount)
    @@ (IF metadata.Description # <<>>
        THEN ("description" :> metadata.Description) ELSE NoFields)
    @@ (IF metadata.Template # ""
        THEN ("template" :> metadata.Template) ELSE NoFields)
    @@ (IF metadata.CustomFlags # <<>>
        THEN ("customFlags" :> metadata.CustomFlags) ELSE NoFields)

\* json.Unmarshal into a zero ProfileMetadata: an absent key leaves the zero value
Unmarshal(obj) ==
    [CreatedAt |-> IF "createdAt" \in DOMAIN obj THEN obj["createdAt"] ELSE ZeroTime,
     LastUsed |-> IF "lastUsed" \in DOMAIN obj THEN obj["lastUsed"] ELSE ZeroTime,
     Description |-> IF "description" \in DOMAIN obj THEN obj["description"] ELSE <<>>,
     UsageCount |-> IF "usageCount" \in DOMAIN obj THEN obj["usageCount"] ELSE 0,
     Template |-> IF "template" \in DOMAIN obj THEN obj["template"] ELSE "",
     CustomFlags |-> IF "customFlags" \in DOMAIN obj THEN obj["customFlags"] ELSE <<>>]

loadMetadata(f, profilePath) ==
    Unmarshal(f[Join(profilePath, MetadataFileName)].data.m)

saveMetadata(f, profilePath, metadata) ==
    WriteFile(f, Join(profilePath, MetadataFileName), Meta(Marshal(metadata)))

\* ProfileManager.ProfileExists
ProfileExists(name) == Exists(fs, Join(ProfilesDir, name))

Res(err, f) == [err |-> err, fs |-> f]

-----------------------------------------------------------------------------
\* Config Store

ConfigVersion == <<"1", ".", "0">>

\* GetDefaultProfilesDir: the path of the storage root, as the config names it
DefaultProfilesDir == <<"~", "/", "p">>

\* a Config instance whose CurrentProfile field is name
Cfg(name) ==
    [Version |-> ConfigVersion, ProfilesDir |-> DefaultProfilesDir,
     CurrentProfile |-> name]

\* yaml.Marshal of a Config: omitempty drops an empty currentProfile
MarshalConfig(cfg) ==
    ("version" :> cfg.Version)
    @@ ("profilesDir" :> cfg.ProfilesDir)
    @@ (IF cfg.CurrentProfile = <<>> THEN NoFields
        ELSE ("currentProfile" :> cfg.CurrentProfile))

\* yaml.Unmarshal into a Config: a key that is absent leaves the empty string
UnmarshalConfig(yaml) ==
    [Version |-> IF "version" \in DOMAIN yaml THEN yaml["version"] ELSE <<>>,
     ProfilesDir |-> IF "profilesDir" \in DOMAIN yaml THEN yaml["profilesDir"] ELSE <<>>,
     CurrentProfile |-> IF "currentProfile" \in DOMAIN yaml
                        THEN yaml["currentProfile"] ELSE <<>>]

NoConfigFile == [exists |-> FALSE, yaml |-> NoFields]

\* Config.Save: the file it writes
Save(cfg) == [exists |-> TRUE, yaml |-> MarshalConfig(cfg)]

\* Load: the error, and the Config read from the file
Load(file) ==
    IF ~file.exists THEN [err |-> "NotFound", cfg |-> Cfg(<<>>)]
    ELSE [err |-> "nil", cfg |-> UnmarshalConfig(file.yaml)]

\* Init writing the default config over an existing file
ConfigInitOverwriting(file) == Save(Cfg(<<>>))

\* Init: the config file it leaves (the default one unless a file is there)
ConfigInit(file) == IF file.exists THEN file ELSE Save(Cfg(<<>>))

\* no process is inside UpdateLastUsed
Procs == {1, 2}
Idle == [pc |-> "idle", name |-> <<>>, seen |-> 0, size |-> 0, under |-> 0,
         err |-> "nil", meta |-> Unmarshal(NoFields)]
NoProcs == [state |-> [p \in Procs |-> Idle], writer |-> 0]

-----------------------------------------------------------------------------
\* Templates

BuiltinTemplates == {"restrictive", "permissive"}

\* A JSON value is written as the set of its members, <<key, string>>; a
\* string v that is not inside an object is the one member <<"", v>>
Str(v) == {<<"", v>>}

TemplateContent(t) ==
    IF t = "restrictive" THEN {<<"permissions", Str("restricted")>>}
    ELSE {<<"permissions", Str("open")>>}

TemplateExistsAlways(t) == TRUE

TemplateExists(t) == t \in BuiltinTemplates

\* the keys of a JSON object
Keys(obj) == {kv[1] : kv \in obj}

\* a merge that descends into a value both sides define
MergeDeep(settings, content) ==
    {kv \in settings : kv[1] \notin Keys(content)}
    \cup {<<tv[1],
            tv[2] \cup UNION {{m \in kv[2] : m[1] \notin Keys(tv[2])} :
                                 kv \in {o \in settings : o[1] = tv[1]}}>> :
             tv \in content}

\* the loop of ApplyTemplate: settings[key] = value for every key of the
\* template
Merge(settings, content) ==
    {kv \in settings : kv[1] \notin Keys(content)} \cup content

\* what os.ReadFile and json.Unmarshal leave in settings: the object in the
\* file, and the empty map when the file is missing or is no JSON object
LoadSettings(f, settingsPath) ==
    IF Exists(f, settingsPath) /\ f[settingsPath].type = "file"
       /\ f[settingsPath].data.kind = "json"
    THEN f[settingsPath].data.obj ELSE {}

\* ApplyTemplate once LoadTemplate has returned content
ApplyContent(f, profilePath, content) ==
    LET settingsPath == Join(profilePath, ClaudeSettingsFile)
    IN  WriteFile(f, settingsPath,
                  [kind |-> "json",
                   obj |-> Merge(LoadSettings(f, settingsPath), content)])

\* TemplateManager.ApplyTemplate: shallow merge into settings.json
ApplyTemplate(f, profilePath, t) == ApplyContent(f, profilePath, TemplateContent(t))

-----------------------------------------------------------------------------
\* Profile Manager operations. Each returns the error and the resulting tree.

\* os.RemoveAll(path) on a failure after the directory was made
CleanUpNothing(f, path) == f

CleanUp(f, path) == RemoveAll(f, path)

\* The first of the writes of an operation, numbered in the order the
\* operation makes them, that fails: fails is the set of those that would
\* (0: none fails)
FirstFailure(fails, steps) ==
    IF fails \cap steps = {} THEN 0
    ELSE CHOOSE k \in fails \cap steps : \A j \in fails \cap steps : k <= j

NewMetadata(description, template) ==
    [CreatedAt |-> now, LastUsed |-> ZeroTime, Description |-> description,
     UsageCount |-> 0, Template |-> template, CustomFlags |-> <<>>]

\* the writes of CreateProfileWithTemplate after os.MkdirAll: 1 the metadata
\* file, 2 and 3 the two placeholder files, 4 the template
CreateErrors ==
    <<"SaveMetadataFailed", "ConfigFileFailed", "SettingsFileFailed",
      "ApplyTemplateFailed">>

CreateProfileFailing(name, description, template, fails) ==
    LET profilePath == Join(ProfilesDir, name)
        f1 == MkdirAll(fs, profilePath)
        f2 == saveMetadata(f1, profilePath, NewMetadata(description, template))
        f3 == WriteFile(f2, Join(profilePath, ClaudeConfigFile), EmptyObject)
        f4 == WriteFile(f3, Join(profilePath, ClaudeSettingsFile), EmptyObject)
        f5 == IF template # "" THEN ApplyTemplate(f4, profilePath, template) ELSE f4
        reached == <<f1, f2, f3, f4>>
        k == FirstFailure(fails, IF template # "" THEN 1..4 ELSE 1..3)
    IN  IF ValidateName(name) # "nil" THEN Res("ValidationError", fs)
        ELSE IF Exists(fs, profilePath) THEN Res("AlreadyExists", fs)
        ELSE IF template # "" /\ ~TemplateExists(template)
             THEN Res("TemplateNotFound", fs)
        ELSE IF ~MkdirAllOK(fs, profilePath) THEN Res("IOError", fs)
        ELSE IF k # 0 THEN Res(CreateErrors[k], CleanUp(reached[k], profilePath))
        ELSE Res("nil", f5)

CreateProfileOverExisting(name, description, template) ==
    LET profilePath == Join(ProfilesDir, name)
        f1 == MkdirAll(fs, profilePath)
        f2 == saveMetadata(f1, profilePath, NewMetadata(description, template))
        f3 == WriteFile(f2, Join(profilePath, ClaudeConfigFile), EmptyObject)
        f4 == WriteFile(f3, Join(profilePath, ClaudeSettingsFile), EmptyObject)
        f5 == IF template # "" THEN ApplyTemplate(f4, profilePath, template) ELSE f4
    IN  IF ValidateName(name) # "nil" THEN Res("ValidationError", fs)
        ELSE IF template # "" /\ ~TemplateExists(template)
             THEN Res("TemplateNotFound", fs)
        ELSE IF ~MkdirAllOK(fs, profilePath) THEN Res("IOError", fs)
        ELSE Res("nil", f5)

CreateProfileWithTemplate(name, description, template) ==
    CreateProfileFailing(name, description, template, {})

DeleteProfileUnguarded(name) ==
    LET profilePath == Join(ProfilesDir, name)
    IN  IF ValidateName(name) # "nil" THEN Res("ValidationError", fs)
        ELSE IF ~Exists(fs, profilePath) THEN Res("NotFound", fs)
        ELSE Res("nil", RemoveAll(fs, profilePath))

\* DeleteProfile reading the active profile name from the config file
DeleteProfileRereading(name) ==
    LET profilePath == Join(ProfilesDir, name)
    IN  IF ValidateName(name) # "nil" THEN Res("ValidationError", fs)
        ELSE IF ~Exists(fs, profilePath) THEN Res("NotFound", fs)
        ELSE IF Load(configFile).cfg.CurrentProfile = name
             THEN Res("ProtectedState", fs)
        ELSE Res("nil", RemoveAll(fs, profilePath))

DeleteProfile(name) ==
    LET profilePath == Join(ProfilesDir, name)
    IN  IF ValidateName(name) # "nil" THEN Res("ValidationError", fs)
        ELSE IF ~Exists(fs, profilePath) THEN Res("NotFound", fs)
        ELSE IF CurrentProfile = name THEN Res("ProtectedState", fs)
        ELSE Res("nil", RemoveAll(fs, profilePath))

\* GetProfile: the error, and the profile when there is none
GetProfile(f, name) ==
    LET profilePath == Join(ProfilesDir, name)
    IN  IF ValidateName(name) # "nil" THEN [err |-> "ValidationError"]
        ELSE IF ~Exists(f, profilePath) THEN [err |-> "NotFound"]
        ELSE IF ~loadMetadataOK(f, profilePath) THEN [err |-> "Corruption"]
        ELSE [err |-> "nil", Name |-> name, Path |-> profilePath,
              Metadata |-> loadMetadata(f, profilePath)]

UpdateLastUsedNoCount(f, name) ==
    LET profile == GetProfile(f, name)
    IN  IF profile.err # "nil" THEN Res(profile.err, f)
        ELSE Res("nil", saveMetadata(f, profile.Path,
                 [profile.Metadata EXCEPT !.LastUsed = now]))

UpdateLastUsed(f, name) ==
    LET profile == GetProfile(f, name)
    IN  IF profile.err # "nil" THEN Res(profile.err, f)
        ELSE Res("nil", saveMetadata(f, profile.Path,
                 [profile.Metadata EXCEPT !.LastUsed = now,
                                          !.UsageCount = @ + 1]))

\* the less function ListProfiles gives to sort.Slice
LessOldestFirst(pi, pj) ==
    IF pi.Metadata.LastUsed = ZeroTime /\ pj.Metadata.LastUsed = ZeroTime
    THEN StrLess(pi.Name, pj.Name)
    ELSE IF pi.Metadata.LastUsed = ZeroTime THEN FALSE
    ELSE IF pj.Metadata.LastUsed = ZeroTime THEN TRUE
    ELSE pi.Metadata.LastUsed < pj.Metadata.LastUsed

Less(pi, pj) ==
    IF pi.Metadata.LastUsed = ZeroTime /\ pj.Metadata.LastUsed = ZeroTime
    THEN StrLess(pi.Name, pj.Name)
    ELSE IF pi.Metadata.LastUsed = ZeroTime THEN FALSE
    ELSE IF pj.Metadata.LastUsed = ZeroTime THEN TRUE
    ELSE pi.Metadata.LastUsed > pj.Metadata.LastUsed

\* sort.Slice(profiles, less): not stable, so every arrangement of the
\* elements in which no element is less than one before it
SortSlice(profiles) ==
    {s \in [1..Cardinality(profiles) -> profiles] :
        /\ \A i, j \in 1..Cardinality(profiles) : i # j => s[i] # s[j]
        /\ \A i, j \in 1..Cardinality(profiles) : i < j => ~Less(s[j], s[i])}

\* the scan of ListProfiles: the subdirectories whose metadata loads
ProfilesNoSkip(f) ==
    {[Name |-> n, Path |-> Join(ProfilesDir, n),
      Metadata |-> IF loadMetadataOK(f, Join(ProfilesDir, n))
                   THEN loadMetadata(f, Join(ProfilesDir, n))
                   ELSE Unmarshal(NoFields)] :
        n \in {m \in Children(f, ProfilesDir) : IsDir(f, Join(ProfilesDir, m))}}

Profiles(f) ==
    {[Name |-> n, Path |-> Join(ProfilesDir, n),
      Metadata |-> loadMetadata(f, Join(ProfilesDir, n))] :
        n \in {m \in Children(f, ProfilesDir) :
                  /\ IsDir(f, Join(ProfilesDir, m))
                  /\ loadMetadataOK(f, Join(ProfilesDir, m))}}

\* the error of ListProfiles: os.ReadDir of a storage root that is absent is
\* not one, os.ReadDir of anything else that is not a directory is
ListProfilesErr(f) ==
    IF Exists(f, ProfilesDir) /\ ~IsDir(f, ProfilesDir) THEN "IOError" ELSE "nil"

\* ListProfiles: the lists it can return (none when it returns an error; the
\* empty list when the storage root is absent)
ListProfilesRootRequired(f) ==
    IF ~IsDir(f, ProfilesDir) THEN {} ELSE SortSlice(Profiles(f))

ListProfiles(f) ==
    IF ListProfilesErr(f) # "nil" THEN {}
    ELSE IF ~Exists(f, ProfilesDir) THEN {<<>>}
    ELSE SortSlice(Profiles(f))

ValidateProfileDirOnly(f, path) == Exists(f, path)

\* ValidateProfile: the directory and its three required files exist
ValidateProfile(f, path) ==
    /\ Exists(f, path)
    /\ \A file \in {MetadataFileName, ClaudeConfigFile, ClaudeSettingsFile} :
          Exists(f, Join(path, file))

\* the copy loop of CloneProfile and ImportProfile: top-level regular files
CopyWholeTree(f, srcTree, destPath, skip) ==
    LET rels == {r \in DOMAIN srcTree : r # <<>> /\ r[1] \notin skip}
    IN  [q \in DOMAIN f \cup {destPath \o r : r \in rels} |->
            IF \E r \in rels : q = destPath \o r
            THEN srcTree[SubSeq(q, Len(destPath) + 1, Len(q))]
            ELSE f[q]]

CopyTopLevel(f, srcTree, destPath, skip) ==
    LET names == {n \in Children(srcTree, <<>>) :
                     srcTree[<<n>>].type = "file" /\ n \notin skip}
    IN  [q \in DOMAIN f \cup {Join(destPath, n) : n \in names} |->
            IF \E n \in names : q = Join(destPath, n)
            THEN srcTree[<<q[Len(q)]>>]
            ELSE f[q]]

ClonedFrom(source) == <<"C","l","o","n","e","d"," ","f","r","o","m"," ">> \o source

\* the calls of CloneProfile after os.MkdirAll: 1 os.ReadDir of the source,
\* 2 the copy loop, 3 the metadata file
CloneErrors == <<"ReadDirFailed", "CopyFailed", "SaveMetadataFailed">>

CloneProfileFailing(source, dest, fails) ==
    LET sourceProfile == GetProfile(fs, source)
        destPath == Join(ProfilesDir, dest)
        f1 == MkdirAll(fs, destPath)
        f2 == CopyTopLevel(f1, SubTree(fs, sourceProfile.Path), destPath, {})
        newMetadata == [sourceProfile.Metadata EXCEPT
                            !.CreatedAt = now, !.LastUsed = ZeroTime,
                            !.UsageCount = 0, !.Description = ClonedFrom(source)]
        reached == <<f1, f2, f2>>
        k == FirstFailure(fails, 1..3)
    IN  IF ValidateName(dest) # "nil" THEN Res("ValidationError", fs)
        ELSE IF sourceProfile.err # "nil" THEN Res("NotFound", fs)
        ELSE IF Exists(fs, destPath) THEN Res("AlreadyExists", fs)
        ELSE IF ~MkdirAllOK(fs, destPath) THEN Res("IOError", fs)
        ELSE IF k # 0 THEN Res(CloneErrors[k], CleanUp(reached[k], destPath))
        ELSE Res("nil", saveMetadata(f2, destPath, newMetadata))

CloneProfileKeepingUsage(source, dest) ==
    LET sourceProfile == GetProfile(fs, source)
        destPath == Join(ProfilesDir, dest)
        f1 == MkdirAll(fs, destPath)
        f2 == CopyTopLevel(f1, SubTree(fs, sourceProfile.Path), destPath, {})
        newMetadata == [sourceProfile.Metadata EXCEPT
                            !.CreatedAt = now, !.Description = ClonedFrom(source)]
    IN  IF ValidateName(dest) # "nil" THEN Res("ValidationError", fs)
        ELSE IF sourceProfile.err # "nil" THEN Res("NotFound", fs)
        ELSE IF Exists(fs, destPath) THEN Res("AlreadyExists", fs)
        ELSE IF ~MkdirAllOK(fs, destPath) THEN Res("IOError", fs)
        ELSE Res("nil", saveMetadata(f2, destPath, newMetadata))

CloneProfile(source, dest) == CloneProfileFailing(source, dest, {})

RenameProfileUnguarded(oldName, newName) ==
    LET oldPath == Join(ProfilesDir, oldName)
        newPath == Join(ProfilesDir, newName)
    IN  IF ValidateName(newName) # "nil" THEN Res("ValidationError", fs)
        ELSE IF ~ProfileExists(oldName) THEN Res("NotFound", fs)
        ELSE IF ProfileExists(newName) THEN Res("AlreadyExists", fs)
        ELSE IF IsPrefix(oldPath, newPath) THEN Res("IOError", fs)
        ELSE Res("nil", Rename(fs, oldPath, newPath))

RenameProfileOntoExisting(oldName, newName) ==
    LET oldPath == Join(ProfilesDir, oldName)
        newPath == Join(ProfilesDir, newName)
    IN  IF ValidateName(newName) # "nil" THEN Res("ValidationError", fs)
        ELSE IF ~ProfileExists(oldName) THEN Res("NotFound", fs)
        ELSE IF CurrentProfile = oldName THEN Res("ProtectedState", fs)
        ELSE IF IsPrefix(oldPath, newPath) THEN Res("IOError", fs)
        ELSE Res("nil", Rename(fs, oldPath, newPath))

RenameProfile(oldName, newName) ==
    LET oldPath == Join(ProfilesDir, oldName)
        newPath == Join(ProfilesDir, newName)
    IN  IF ValidateName(newName) # "nil" THEN Res("ValidationError", fs)
        ELSE IF ~ProfileExists(oldName) THEN Res("NotFound", fs)
        ELSE IF ProfileExists(newName) THEN Res("AlreadyExists", fs)
        ELSE IF CurrentProfile = oldName THEN Res("ProtectedState", fs)
        \* rename(2) refuses to move a directory below itself
        ELSE IF IsPrefix(oldPath, newPath) THEN Res("IOError", fs)
        ELSE Res("nil", Rename(fs, oldPath, newPath))

\* The external directory ImportProfile reads: credentials, a metadata file
\* of its own, one other file and a subdirectory; no settings.json
ImportSource ==
    (<<>> :> DirNode)
    @@ (<<ClaudeConfigFile>> :> FileNode(Raw("token")))
    @@ (<<MetadataFileName>> :> FileNode(Meta(Marshal(
            [CreatedAt |-> ZeroTime, LastUsed |-> ZeroTime,
             Description |-> <<"o","l","d">>, UsageCount |-> 3,
             Template |-> "permissive", CustomFlags |-> <<"--verbose">>]))))
    @@ (<<<<"h","i","s","t">>>> :> FileNode(Raw("history")))
    @@ (<<<<"l","o","g","s">>>> :> DirNode)
    @@ (<<<<"l","o","g","s">>, <<"x">>>> :> FileNode(Raw("log")))

\* An external directory without credentials: settings and one other file
ImportSourceNoConfig ==
    (<<>> :> DirNode)
    @@ (<<ClaudeSettingsFile>> :> FileNode(Raw("prefs")))
    @@ (<<<<"h","i","s","t">>>> :> FileNode(Raw("history")))

\* step 9 of ImportProfile: a well-known file the source lacks is written
\* as an empty object
PlaceholderNever(f, path, found) == f

Placeholder(f, path, found) ==
    IF found THEN f ELSE WriteFile(f, path, EmptyObject)

\* ImportProfile of the directory src up to its last write, with directory
\* creation moved before the second confirmation
ImportFromCreatingFirst(src, name, description, overwriteAns, proceedAns) ==
    LET destPath == Join(ProfilesDir, name)
        profileExists == Exists(fs, destPath)
        entries == Children(src, <<>>)
        foundClaudeConfig == ClaudeConfigFile \in entries
                             /\ src[<<ClaudeConfigFile>>].type = "file"
        foundSettings == ClaudeSettingsFile \in entries
                         /\ src[<<ClaudeSettingsFile>>].type = "file"
        foundMetadata == MetadataFileName \in entries
                         /\ src[<<MetadataFileName>>].type = "file"
        f1 == IF profileExists THEN RemoveAll(fs, destPath) ELSE fs
        f2 == MkdirAll(f1, destPath)
        f3 == CopyTopLevel(f2, src, destPath, {MetadataFileName})
        f4 == Placeholder(f3, Join(destPath, ClaudeConfigFile), foundClaudeConfig)
        f5 == Placeholder(f4, Join(destPath, ClaudeSettingsFile), foundSettings)
        fresh == NewMetadata(description, "")
        metadata == IF foundMetadata /\ loadMetadataOK(f5, destPath)
                    THEN [fresh EXCEPT
                            !.Template = loadMetadata(f5, destPath).Template,
                            !.CustomFlags = loadMetadata(f5, destPath).CustomFlags]
                    ELSE fresh
    IN  IF ValidateName(name) # "nil" THEN Res("ValidationError", fs)
        ELSE IF ~srcExists THEN Res("NotFound", fs)
        ELSE IF profileExists /\ ~overwriteAns THEN Res("Cancelled", fs)
        ELSE IF ~proceedAns THEN Res("Cancelled", f2)
        ELSE IF ~MkdirAllOK(f1, destPath) THEN Res("IOError", f1)
        ELSE Res("nil", saveMetadata(f5, destPath, metadata))

\* ImportProfile of the directory src up to its last write; overwriteAns and
\* proceedAns are the answers read by promptYesNo at the two confirmations
ImportFrom(src, name, description, overwriteAns, proceedAns) ==
    LET destPath == Join(ProfilesDir, name)
        profileExists == Exists(fs, destPath)
        entries == Children(src, <<>>)
        foundClaudeConfig == ClaudeConfigFile \in entries
                             /\ src[<<ClaudeConfigFile>>].type = "file"
        foundSettings == ClaudeSettingsFile \in entries
                         /\ src[<<ClaudeSettingsFile>>].type = "file"
        foundMetadata == MetadataFileName \in entries
                         /\ src[<<MetadataFileName>>].type = "file"
        f1 == IF profileExists THEN RemoveAll(fs, destPath) ELSE fs
        f2 == MkdirAll(f1, destPath)
        f3 == CopyTopLevel(f2, src, destPath, {MetadataFileName})
        f4 == Placeholder(f3, Join(destPath, ClaudeConfigFile), foundClaudeConfig)
        f5 == Placeholder(f4, Join(destPath, ClaudeSettingsFile), foundSettings)
        fresh == NewMetadata(description, "")
        metadata == IF foundMetadata /\ loadMetadataOK(f5, destPath)
                    THEN [fresh EXCEPT
                            !.Template = loadMetadata(f5, destPath).Template,
                            !.CustomFlags = loadMetadata(f5, destPath).CustomFlags]
                    ELSE fresh
    IN  IF ValidateName(name) # "nil" THEN Res("ValidationError", fs)
        ELSE IF ~srcExists THEN Res("NotFound", fs)
        ELSE IF profileExists /\ ~overwriteAns THEN Res("Cancelled", fs)
        ELSE IF ~proceedAns THEN Res("Cancelled", f1)
        ELSE IF ~MkdirAllOK(f1, destPath) THEN Res("IOError", f1)
        ELSE Res("nil", saveMetadata(f5, destPath, metadata))

ImportProfile(name, description, overwriteAns, proceedAns) ==
    ImportFrom(ImportSource, name, description, overwriteAns, proceedAns)

\* HandleSwitch: the error, the tree and the persisted active profile name.
\* run is "noRun" when the tool is not launched, and otherwise what
\* Executor.Run returns
RunOutcomes == {"noRun", "nil", "ExecFailed"}

HandleSwitchEager(name, run) ==
    LET profile == GetProfile(fs, name)
        used == UpdateLastUsed(fs, name)
    IN  IF profile.err # "nil"
        THEN [err |-> "NotFound", fs |-> fs, CurrentProfile |-> name]
        ELSE IF ~ValidateProfile(fs, profile.Path)
        THEN [err |-> "Corruption", fs |-> fs, CurrentProfile |-> name]
        ELSE [err |-> IF run = "noRun" THEN "nil" ELSE run,
              fs |-> used.fs, CurrentProfile |-> name]

HandleSwitchRunning(name, run) ==
    LET profile == GetProfile(fs, name)
        used == UpdateLastUsed(fs, name)
    IN  IF profile.err # "nil"
        THEN [err |-> "NotFound", fs |-> fs, CurrentProfile |-> CurrentProfile]
        ELSE IF ~ValidateProfile(fs, profile.Path)
        THEN [err |-> "Corruption", fs |-> fs, CurrentProfile |-> CurrentProfile]
        ELSE [err |-> IF run = "noRun" THEN "nil" ELSE run,
              fs |-> used.fs, CurrentProfile |-> name]

HandleSwitch(name) == HandleSwitchRunning(name, "noRun")

-----------------------------------------------------------------------------
\* Backup Manager

BaseDate == 20250101
SecondsPerDay == 86400

\* time.Now().Format("20060102-150405") for the days of the base month
FormatTimestamp(t) ==
    LET day == t \div SecondsPerDay
        sec == t % SecondsPerDay
        hms == (sec \div 3600) * 10000 + ((sec % 3600) \div 60) * 100 + (sec % 60)
    IN  Digits(BaseDate + day, 8) \o <<"-">> \o Digits(hms, 6)

BackupNameDateOnly(profileName, t) ==
    profileName \o <<"-">> \o Digits(BaseDate + (t \div SecondsPerDay), 8)
        \o <<"-">> \o Digits(0, 6) \o TarGzSuffix

BackupName(profileName, t) ==
    profileName \o <<"-">> \o FormatTimestamp(t) \o TarGzSuffix

\* the callback of filepath.Walk for one path: a header named by the
\* slash-separated relative path, followed by the bytes of a regular file
TarEntry(f, profilePath, rel) ==
    IF f[profilePath \o rel].type = "dir"
    THEN [Name |-> JoinStr(rel, "/"), Typeflag |-> "dir"]
    ELSE [Name |-> JoinStr(rel, "/"), Typeflag |-> "reg",
          data |-> f[profilePath \o rel].data]

RECURSIVE WalkNamesFlat(_, _, _, _)
WalkNamesFlat(f, profilePath, rel, names) ==
    IF names = <<>> THEN <<>>
    ELSE <<TarEntry(f, profilePath, Append(rel, Head(names)))>>
         \o WalkNamesFlat(f, profilePath, rel, Tail(names))

\* filepath.Walk below profilePath/rel: lexical order, parents first
RECURSIVE WalkNames(_, _, _, _)
WalkNames(f, profilePath, rel, names) ==
    IF names = <<>> THEN <<>>
    ELSE LET child == Append(rel, Head(names))
             below == IF f[profilePath \o child].type = "dir"
                      THEN WalkNames(f, profilePath, child,
                               SortNames(Children(f, profilePath \o child)))
                      ELSE <<>>
         IN  <<TarEntry(f, profilePath, child)>> \o below
             \o WalkNames(f, profilePath, rel, Tail(names))

Walk(f, profilePath) ==
    WalkNames(f, profilePath, <<>>, SortNames(Children(f, profilePath)))

BackupMissingOK(profileName) ==
    [err |-> "nil", name |-> BackupName(profileName, now),
     entries |-> Walk(fs, Join(ProfilesDir, profileName))]

\* os.Remove(backupPath) after a failed walk
OsRemoveNothing(archives, name) == archives

OsRemove(archives, name) == [n \in DOMAIN archives \ {name} |-> archives[n]]

\* Backup: the error, the archive name, the archive written and the backup
\* directory it leaves. failAt is the entry of the walk at which a write to
\* the archive fails (0, or one past the last entry: none does); os.Create
\* has by then truncated a file of the same name
BackupFailing(profileName, failAt) ==
    LET profilePath == Join(ProfilesDir, profileName)
        backupName == BackupName(profileName, now)
        entries == Walk(fs, profilePath)
        partial == (backupName :> SubSeq(entries, 1, failAt - 1)) @@ backups
    IN  IF ~Exists(fs, profilePath)
        THEN [err |-> "NotFound", name |-> <<>>, entries |-> <<>>,
              backups |-> backups]
        ELSE IF failAt \in 1..Len(entries)
        THEN [err |-> "WalkFailed", name |-> <<>>, entries |-> <<>>,
              backups |-> OsRemove(partial, backupName)]
        ELSE [err |-> "nil", name |-> backupName, entries |-> entries,
              backups |-> (backupName :> entries) @@ backups]

Backup(profileName) == BackupFailing(profileName, 0)

\* the hyphen-delimited parts of an archive file name without its extension
NameParts(baseName) == Split(TrimSuffix(baseName, TarGzSuffix), "-")

\* the archive name has the parts of a profile name and a timestamp
ValidFormatTwoParts(parts) == Len(parts) >= 2

ValidFormat(parts) == Len(parts) >= 3

\* the profile name Restore and List derive: all but the last two parts
DerivedProfileNameFirstPart(parts) == parts[1]

DerivedProfileName(parts) == JoinStr(SubSeq(parts, 1, Len(parts) - 2), "-")

\* The extraction loop of Restore. failAt is the iteration at which the tar
\* reader or a filesystem call returns an error (0: none does); every such
\* branch removes profilePath and returns.
RECURSIVE ExtractKeepingPartial(_, _, _, _)
ExtractKeepingPartial(f, profilePath, entries, failAt) ==
    IF failAt = 1 THEN Res("IOError", f)
    ELSE IF entries = <<>> THEN Res("nil", f)
    ELSE LET header == Head(entries)
             targetPath == JoinPath(profilePath, header.Name)
             rest == IF failAt = 0 THEN 0 ELSE failAt - 1
         IN  IF header.Typeflag = "dir"
             THEN ExtractKeepingPartial(MkdirAll(f, targetPath), profilePath,
                                        Tail(entries), rest)
             ELSE ExtractKeepingPartial(
                      WriteFile(MkdirAll(f, Parent(targetPath)),
                                targetPath, header.data),
                      profilePath, Tail(entries), rest)

RECURSIVE Extract(_, _, _, _)
Extract(f, profilePath, entries, failAt) ==
    IF failAt = 1 THEN Res("IOError", RemoveAll(f, profilePath))
    ELSE IF entries = <<>> THEN Res("nil", f)
    ELSE LET header == Head(entries)
             targetPath == JoinPath(profilePath, header.Name)
             rest == IF failAt = 0 THEN 0 ELSE failAt - 1
         IN  IF header.Typeflag = "dir"
             THEN IF ~MkdirAllOK(f, targetPath)
                  THEN Res("IOError", RemoveAll(f, profilePath))
                  ELSE Extract(MkdirAll(f, targetPath), profilePath,
                               Tail(entries), rest)
             ELSE IF header.Typeflag = "reg"
             THEN IF ~MkdirAllOK(f, Parent(targetPath))
                     \/ ~WriteFileOK(MkdirAll(f, Parent(targetPath)), targetPath)
                  THEN Res("IOError", RemoveAll(f, profilePath))
                  ELSE Extract(WriteFile(MkdirAll(f, Parent(targetPath)),
                                         targetPath, header.data),
                               profilePath, Tail(entries), rest)
             ELSE Extract(f, profilePath, Tail(entries), rest)

\* Restore: the error, the resulting tree and the derived profile name
RestoreMerging(baseName, overwrite, failAt) ==
    LET parts == NameParts(baseName)
        profileName == DerivedProfileName(parts)
        profilePath == Join(ProfilesDir, profileName)
        done == Extract(MkdirAll(fs, profilePath), profilePath,
                        backups[baseName], failAt)
    IN  IF baseName \notin DOMAIN backups
        THEN [err |-> "IOError", fs |-> fs, profileName |-> <<>>]
        ELSE IF ~ValidFormat(parts)
        THEN [err |-> "InvalidFormat", fs |-> fs, profileName |-> <<>>]
        ELSE IF Exists(fs, profilePath) /\ ~overwrite
        THEN [err |-> "ExistsNoOverwrite", fs |-> fs, profileName |-> <<>>]
        ELSE IF ~MkdirAllOK(fs, profilePath)
        THEN [err |-> "IOError", fs |-> fs, profileName |-> <<>>]
        ELSE IF done.err # "nil"
        THEN [err |-> done.err, fs |-> done.fs, profileName |-> <<>>]
        ELSE [err |-> "nil", fs |-> done.fs, profileName |-> profileName]

RestoreWith(baseName, overwrite, failAt) ==
    LET parts == NameParts(baseName)
        profileName == DerivedProfileName(parts)
        profilePath == Join(ProfilesDir, profileName)
        f1 == IF Exists(fs, profilePath) THEN RemoveAll(fs, profilePath) ELSE fs
        done == Extract(MkdirAll(f1, profilePath), profilePath,
                        backups[baseName], failAt)
    IN  IF baseName \notin DOMAIN backups
        THEN [err |-> "IOError", fs |-> fs, profileName |-> <<>>]
        ELSE IF ~ValidFormat(parts)
        THEN [err |-> "InvalidFormat", fs |-> fs, profileName |-> <<>>]
        ELSE IF Exists(fs, profilePath) /\ ~overwrite
        THEN [err |-> "ExistsNoOverwrite", fs |-> fs, profileName |-> <<>>]
        ELSE IF ~MkdirAllOK(f1, profilePath)
        THEN [err |-> "IOError", fs |-> f1, profileName |-> <<>>]
        ELSE IF done.err # "nil"
        THEN [err |-> done.err, fs |-> done.fs, profileName |-> <<>>]
        ELSE [err |-> "nil", fs |-> done.fs, profileName |-> profileName]

\* Restore when no read and no filesystem call fails
RestoreIgnoringFlag(baseName, overwrite) ==
    LET parts == NameParts(baseName)
        profileName == DerivedProfileName(parts)
        profilePath == Join(ProfilesDir, profileName)
        f1 == IF Exists(fs, profilePath) THEN RemoveAll(fs, profilePath) ELSE fs
        done == Extract(MkdirAll(f1, profilePath), profilePath,
                        backups[baseName], 0)
    IN  IF baseName \notin DOMAIN backups
        THEN [err |-> "IOError", fs |-> fs, profileName |-> <<>>]
        ELSE IF ~ValidFormat(parts)
        THEN [err |-> "InvalidFormat", fs |-> fs, profileName |-> <<>>]
        ELSE IF ~MkdirAllOK(f1, profilePath)
        THEN [err |-> "IOError", fs |-> f1, profileName |-> <<>>]
        ELSE IF done.err # "nil"
        THEN [err |-> done.err, fs |-> done.fs, profileName |-> <<>>]
        ELSE [err |-> "nil", fs |-> done.fs, profileName |-> profileName]

Restore(baseName, overwrite) == RestoreWith(baseName, overwrite, 0)

\* List without its ordering: name and derived profile name of every entry
\* that ends in .tar.gz and has at least three hyphen-delimited parts
List ==
    {[Name |-> n, ProfileName |-> DerivedProfileName(NameParts(n))] :
        n \in {m \in DOMAIN backups :
                  HasSuffix(m, TarGzSuffix) /\ Len(NameParts(m)) >= 3}}

\* BackupManager.Delete: the error; the archive is removed when there is none
BackupDelete(backupName) ==
    IF backupName \notin DOMAIN backups THEN "NotFound" ELSE "nil"

\* the value of a string of decimal digits
RECURSIVE Number(_)
Number(s) ==
    IF s = <<>> THEN 0
    ELSE Number(SubSeq(s, 1, Len(s) - 1)) * 10
         + ((CHOOSE i \in 1..10 : DigitChars[i] = s[Len(s)]) - 1)

AllDigits(s) == \A i \in 1..Len(s) : s[i] \in Digit

\* whether time.Parse("20060102-150405", ts) returns no error, for the days
\* of the base month
TimestampOK(ts) ==
    /\ Len(ts) = 15
    /\ ts[9] = "-"
    /\ AllDigits(SubSeq(ts, 1, 8))
    /\ AllDigits(SubSeq(ts, 10, 15))
    /\ (Number(SubSeq(ts, 1, 8)) - BaseDate) \in 0..30
    /\ Number(SubSeq(ts, 10, 15)) \div 10000 < 24
    /\ (Number(SubSeq(ts, 10, 15)) \div 100) % 100 < 60
    /\ Number(SubSeq(ts, 10, 15)) % 100 < 60

\* time.Parse("20060102-150405", ts), for the days of the base month: the
\* digits read as a time in UTC, in seconds after midnight UTC of the base
\* date; the zero time when ts does not parse
ParseTimestamp(ts) ==
    LET date == SubSeq(ts, 1, 8)
        clock == SubSeq(ts, 10, 15)
        day == Number(date) - BaseDate
        hour == Number(clock) \div 10000
        min == (Number(clock) \div 100) % 100
        sec == Number(clock) % 100
    IN  IF TimestampOK(ts)
        THEN day * SecondsPerDay + hour * 3600 + min * 60 + sec
        ELSE ZeroTime

\* the timestamp List cuts from a name: its last two parts
Timestamp(name) ==
    LET parts == NameParts(name)
    IN  parts[Len(parts) - 1] \o <<"-">> \o parts[Len(parts)]

\* BackupInfo.CreatedAt as List fills it in: the last two parts of the name
CreatedAt(name) ==
    LET parts == NameParts(name)
    IN  ParseTimestamp(parts[Len(parts) - 1] \o <<"-">> \o parts[Len(parts)])

\* t.Before(cutoff) for cutoff = time.Now().AddDate(0, 0, -retentionDays),
\* where time.Now() is the given second plus a part of a second (taken as
\* never exactly none): t <= instant - retentionDays * SecondsPerDay,
\* computed by division to stay within the integers of the checker; the zero
\* time is before every cutoff
\* the less function of List: backups[i].CreatedAt.After(backups[j].CreatedAt)
AfterOldestFirst(bi, bj) == CreatedAt(bi.Name) < CreatedAt(bj.Name)

After(bi, bj) == CreatedAt(bi.Name) > CreatedAt(bj.Name)

\* List: the lists sort.Slice, which is not stable, can leave
ListSorted ==
    {s \in [1..Cardinality(List) -> List] :
        /\ \A i, j \in 1..Cardinality(List) : i # j => s[i] # s[j]
        /\ \A i, j \in 1..Cardinality(List) : i < j => ~After(s[j], s[i])}

Before(t, instant, retentionDays) ==
    t = ZeroTime \/ retentionDays <= (instant - t) \div SecondsPerDay

\* Cleanup: the number it returns and the archives it removes. The clock
\* `now` is the local wall clock Backup formats; zone is the offset of the
\* local zone east of UTC, so time.Now() is the instant now - zone.
Cleanup(retentionDays, zone) ==
    LET old == {b \in List : Before(CreatedAt(b.Name), now - zone, retentionDays)}
        removed == {b.Name : b \in {o \in old : BackupDelete(o.Name) = "nil"}}
    IN  [err |-> "nil", deleted |-> Cardinality(removed), removed |-> removed]

-----------------------------------------------------------------------------
\* Inputs

Work == <<"a">>
Dev1 == <<"b","-","1">>
Spaced == <<"a"," ">>

ValidNames == {Work, Dev1}
NameInputs == ValidNames \cup {<<>>, Spaced}

Descriptions == {<<"w">>}
TemplateInputs == {"", "restrictive", "nonexistent"}

Notes == <<"n","o","t","e","s">>
Cache == <<"c","a","c","h","e">>
Blob == <<"x">>

\* what the launched tool writes below its configuration directory
ToolWrites == {<<<<Notes>>, "A">>, <<<<Notes>>, "B">>, <<<<Cache, Blob>>, "A">>}

\* an archive path at which there is no file
MissingArchive == <<"x">> \o TarGzSuffix

\* the sets of writes of CreateProfile and CloneProfile that are made to fail
FailSets == {{}, {1}, {3}, {2, 4}}

\* the iterations of the extraction loop at which a failure is injected
FailPoints == {0, 1, 2}

\* the content of archives that Backup did not write: a file at the top of
\* the profile, and a file whose stored path climbs out of it
PlacedEntries ==
    {<<[Name |-> Notes, Typeflag |-> "reg", data |-> Raw("B")]>>,
     <<[Name |-> JoinStr(<<<<".", ".">>, Dev1, Notes>>, "/"),
        Typeflag |-> "reg", data |-> Raw("B")]>>}

\* a name with a separator: the metadata file of profile a
NestedNames == {JoinStr(<<Work, MetadataFileName>>, "/")}

PathInputs == NameInputs \cup NestedNames

\* names a user gives to an archive moved out of the way
ShortArchiveNames == {<<"a">> \o TarGzSuffix, <<"a", "-", "1">> \o TarGzSuffix}

\* offsets east of UTC, in seconds, of the zone the process runs in
ZoneOffsets == {0 - 3600, 0, 3600}

RetentionInputs == {0, 1, 36500}

\* lengths of the metadata file a call writes
FracDigits == {1, 2}

\* template bodies LoadTemplate returns: the built-in ones, user-supplied
\* ones with nested values, and an empty one
ContentInputs ==
    {TemplateContent(t) : t \in BuiltinTemplates}
    \cup {{<<"permissions", {<<"allow", "a">>}>>, <<"theme", Str("dark")>>},
          {<<"env", {<<"deny", "d">>}>>},
          {}}

\* what a user leaves in settings.json: nothing (the file removed), bytes
\* that are no JSON, and objects
NoFile == [kind |-> "none"]
SettingsInputs ==
    {NoFile, Raw("A"),
     [kind |-> "json",
      obj |-> {<<"permissions", {<<"allow", "b">>, <<"deny", "d">>}>>,
               <<"env", Str("x")>>}],
     [kind |-> "json", obj |-> {<<"theme", Str("light")>>}]}

\* files put into the backup directory by hand: an archive of another
\* machine's profile, an archive named without a timestamp, one with too few
\* parts, and a file that is no archive
Foreign == BackupName(<<"x">>, 2)
Unstamped == <<"x", "-", "y", "-", "z">> \o TarGzSuffix
TwoParts == <<"a", "-", "1">> \o TarGzSuffix
Readme == <<"r", "-", "e", "-", "a", "-", "d">>
DropInputs == {Foreign, Unstamped, TwoParts, Readme}

\* the archive paths given to Restore and Delete
ArchiveInputs == DOMAIN backups \cup {MissingArchive}

-----------------------------------------------------------------------------
\* State machine

\* changed: whether the call altered anything outside this record; flag and
\* existed are set by Restore: its overwrite argument, and whether the
\* directory it restores into was there before the call
Call(op, err, changed) ==
    [op |-> op, flag |-> FALSE, existed |-> FALSE, err |-> err, changed |-> changed]

Init ==
    /\ fs = (ProfilesDir :> DirNode)
    /\ CurrentProfile = <<>>
    /\ backups = <<>>
    /\ srcExists = TRUE
    /\ now = 1
    /\ last = Call("none", "nil", TRUE)
    /\ snap = <<>>
    /\ budget = MaxSteps
    /\ input = <<>>
    /\ verdict = "none"
    /\ configFile = Save(Cfg(<<>>))
    /\ procs = NoProcs

\* Every call uses up one unit of the exploration depth, and a run is not
\* explored past a call that changed nothing: the state such a call leaves is
\* the state it found, which is explored without that call.
Budget == budget > 0 /\ last.changed /\ budget' = budget - 1

CreateProfileStep ==
    \E name \in NameInputs, description \in Descriptions,
       template \in TemplateInputs, fails \in FailSets :
        LET r == CreateProfileFailing(name, description, template, fails)
        IN  /\ Budget
            /\ fs' = r.fs
            /\ last' = Call("CreateProfile", r.err, r.fs # fs)
            /\ UNCHANGED <<CurrentProfile, backups, srcExists, now, snap, input, verdict, configFile, procs>>

DeleteProfileStep ==
    \E name \in NameInputs :
        LET r == DeleteProfile(name)
        IN  /\ Budget
            /\ fs' = r.fs
            /\ last' = Call("DeleteProfile", r.err, r.fs # fs)
            /\ UNCHANGED <<CurrentProfile, backups, srcExists, now, snap, input, verdict, configFile, procs>>

GetProfileStep ==
    \E name \in NameInputs :
        /\ Budget
        /\ last' = Call("GetProfile", GetProfile(fs, name).err, FALSE)
        /\ UNCHANGED <<fs, CurrentProfile, backups, srcExists, now, snap, input, verdict, configFile, procs>>

\* the usage counter is capped at MaxUsage
UsageBelowCap(name) ==
    GetProfile(fs, name).err = "nil" =>
        GetProfile(fs, name).Metadata.UsageCount < MaxUsage

UpdateLastUsedStep ==
    \E name \in NameInputs :
        LET r == UpdateLastUsed(fs, name)
        IN  /\ Budget
            /\ UsageBelowCap(name)
            /\ fs' = r.fs
            /\ last' = Call("UpdateLastUsed", r.err, r.fs # fs)
            /\ UNCHANGED <<CurrentProfile, backups, srcExists, now, snap, input, verdict, configFile, procs>>

CloneProfileStep ==
    \E source \in NameInputs, dest \in NameInputs, fails \in FailSets :
        LET r == CloneProfileFailing(source, dest, fails)
        IN  /\ Budget
            /\ fs' = r.fs
            /\ last' = Call("CloneProfile", r.err, r.fs # fs)
            /\ UNCHANGED <<CurrentProfile, backups, srcExists, now, snap, input, verdict, configFile, procs>>

RenameProfileStep ==
    \E oldName \in NameInputs, newName \in NameInputs :
        LET r == RenameProfile(oldName, newName)
        IN  /\ Budget
            /\ fs' = r.fs
            /\ last' = Call("RenameProfile", r.err, r.fs # fs)
            /\ UNCHANGED <<CurrentProfile, backups, srcExists, now, snap, input, verdict, configFile, procs>>

\* RenameProfile with the old names the command line passes through
RenamePathStep ==
    \E oldName \in PathInputs, newName \in NameInputs :
        LET r == RenameProfile(oldName, newName)
        IN  /\ Budget
            /\ fs' = r.fs
            /\ last' = Call("RenameProfile", r.err, r.fs # fs)
            /\ UNCHANGED <<CurrentProfile, backups, srcExists, now, snap, input,
                           verdict, configFile, procs>>

\* removeAns is the answer to the closing "Remove original files?" prompt
ImportProfileStep ==
    \E name \in NameInputs, description \in Descriptions,
       overwriteAns \in BOOLEAN, proceedAns \in BOOLEAN, removeAns \in BOOLEAN :
        LET r == ImportProfile(name, description, overwriteAns, proceedAns)
        IN  /\ Budget
            /\ fs' = r.fs
            /\ srcExists' = IF r.err = "nil" /\ removeAns THEN FALSE ELSE srcExists
            /\ last' = Call("ImportProfile", r.err, r.fs # fs \/ (r.err = "nil" /\ removeAns))
            /\ UNCHANGED <<CurrentProfile, backups, now, snap, input, verdict, configFile, procs>>

HandleSwitchStep ==
    \E name \in NameInputs, run \in RunOutcomes :
        LET r == HandleSwitchRunning(name, run)
        IN  /\ Budget
            /\ r.fs # fs => UsageBelowCap(name)
            /\ fs' = r.fs
            /\ CurrentProfile' = r.CurrentProfile
            /\ configFile' = IF r.err \in {"NotFound", "Corruption"} THEN configFile
                             ELSE Save(Cfg(r.CurrentProfile))
            /\ last' = Call("Switch", r.err, r.fs # fs \/ r.CurrentProfile # CurrentProfile)
            /\ UNCHANGED <<backups, srcExists, now, snap, input, verdict, procs>>

BackupStep ==
    \E profileName \in NameInputs, failAt \in FailPoints :
        LET r == BackupFailing(profileName, failAt)
            taken == [profileName |-> profileName, takenAt |-> now,
                      tree |-> SubTree(fs, Join(ProfilesDir, profileName))]
        IN  /\ Budget
            /\ r.err = "nil" =>
                 Cardinality(DOMAIN backups \cup {r.name}) <= MaxBackups
            /\ backups' = r.backups
            /\ snap' = IF r.err = "nil" THEN (r.name :> taken) @@ snap
                       ELSE [n \in DOMAIN snap \cap DOMAIN r.backups |-> snap[n]]
            /\ last' = [Call("Backup", r.err, backups' # backups \/ snap' # snap)
                            EXCEPT !.existed =
                                BackupName(profileName, now) \in DOMAIN backups]
            /\ UNCHANGED <<fs, CurrentProfile, srcExists, now, input, verdict, configFile, procs>>

\* whether Restore of baseName finds the directory it restores into
TargetExists(baseName) ==
    /\ baseName \in DOMAIN backups
    /\ Len(NameParts(baseName)) >= 3
    /\ ProfileExists(DerivedProfileName(NameParts(baseName)))

RestoreStep ==
    \E baseName \in ArchiveInputs, overwrite \in BOOLEAN, failAt \in FailPoints :
        LET r == RestoreWith(baseName, overwrite, failAt)
        IN  /\ Budget
            /\ fs' = r.fs
            /\ last' = [Call("Restore", r.err, r.fs # fs) EXCEPT
                            !.flag = overwrite,
                            !.existed = TargetExists(baseName)]
            /\ UNCHANGED <<CurrentProfile, backups, srcExists, now, snap, input, verdict, configFile, procs>>

BackupDeleteStep ==
    \E backupName \in ArchiveInputs :
        LET err == BackupDelete(backupName)
        IN  /\ Budget
            /\ backups' = [n \in DOMAIN backups \ {backupName} |-> backups[n]]
            /\ snap' = [n \in DOMAIN snap \ {backupName} |-> snap[n]]
            /\ last' = Call("BackupDelete", err, err = "nil")
            /\ UNCHANGED <<fs, CurrentProfile, srcExists, now, input, verdict, configFile, procs>>

\* the user puts an archive from elsewhere at a path; Restore takes any path
ArchivePlaceStep ==
    \E entries \in PlacedEntries :
        LET name == BackupName(Work, 1)
        IN  /\ Budget
            /\ backups' = (name :> entries) @@ backups
            /\ snap' = [n \in DOMAIN snap \ {name} |-> snap[n]]
            /\ last' = Call("ArchivePlace", "nil", backups' # backups)
            /\ UNCHANGED <<fs, CurrentProfile, srcExists, now, input, verdict,
                           configFile, procs>>

\* the user renames an archive file; Restore takes any path
ArchiveMoveStep ==
    \E from \in DOMAIN backups, to \in ShortArchiveNames \ DOMAIN backups :
        /\ Budget
        /\ backups' = (to :> backups[from])
                       @@ [n \in DOMAIN backups \ {from} |-> backups[n]]
        /\ snap' = [n \in DOMAIN snap \ {from} |-> snap[n]]
        /\ last' = Call("ArchiveMove", "nil", TRUE)
        /\ UNCHANGED <<fs, CurrentProfile, srcExists, now, input, verdict, configFile, procs>>

CleanupStep ==
    \E retentionDays \in RetentionInputs, zone \in ZoneOffsets :
        LET r == Cleanup(retentionDays, zone)
        IN  /\ Budget
            /\ backups' = [n \in DOMAIN backups \ r.removed |-> backups[n]]
            /\ snap' = [n \in DOMAIN snap \ r.removed |-> snap[n]]
            /\ last' = Call("Cleanup", r.err, r.removed # {})
            /\ UNCHANGED <<fs, CurrentProfile, srcExists, now, input, verdict, configFile, procs>>

\* cdp init
ConfigInitStep ==
    /\ Budget
    /\ fs' = MkdirAll(fs, ProfilesDir)
    /\ configFile' = ConfigInit(configFile)
    /\ last' = Call("Init", "nil", fs' # fs \/ configFile' # configFile)
    /\ UNCHANGED <<CurrentProfile, backups, srcExists, now, snap, input, verdict, procs>>

\* Load, and a ProfileManager made with the Config it returns
LoadStep ==
    LET r == Load(configFile)
    IN  /\ Budget
        /\ CurrentProfile' = IF r.err = "nil" THEN r.cfg.CurrentProfile
                             ELSE CurrentProfile
        /\ last' = Call("Load", r.err, CurrentProfile' # CurrentProfile)
        /\ UNCHANGED <<fs, backups, srcExists, now, snap, input, verdict,
                       configFile, procs>>

\* Config.SetCurrentProfile on the Config the ProfileManager holds
SetCurrentProfileStep ==
    \E name \in NameInputs :
        /\ Budget
        /\ CurrentProfile' = name
        /\ configFile' = Save(Cfg(name))
        /\ last' = Call("SetCurrentProfile", "nil",
                        CurrentProfile' # CurrentProfile \/ configFile' # configFile)
        /\ UNCHANGED <<fs, backups, srcExists, now, snap, input, verdict, procs>>

\* another process switches: its Config.Save writes the file
OtherProcessSwitchStep ==
    \E name \in ValidNames :
        /\ Budget
        /\ configFile.exists
        /\ configFile' = Save(Cfg(name))
        /\ last' = Call("OtherSwitch", "nil", configFile' # configFile)
        /\ UNCHANGED <<fs, CurrentProfile, backups, srcExists, now, snap, input,
                       verdict, procs>>

\* UpdateLastUsed in process p, up to the return of GetProfile: the metadata
\* it read, and the one it will write. size is the length of the bytes it
\* will write, which varies with the digits time.Now() has after the second
UluLoads(p) ==
    \E name \in ValidNames, size \in FracDigits :
        LET profile == GetProfile(fs, name)
        IN  /\ procs.state[p].pc = "idle"
            /\ procs' = [procs EXCEPT !.state[p] =
                  IF profile.err # "nil"
                  THEN [Idle EXCEPT !.pc = "failed", !.name = name,
                                    !.err = profile.err]
                  ELSE [Idle EXCEPT
                          !.pc = "loaded", !.name = name, !.size = size,
                          !.seen = profile.Metadata.UsageCount,
                          !.meta = [profile.Metadata EXCEPT
                                       !.LastUsed = now,
                                       !.UsageCount = @ + 1]]]
            /\ last' = Call("UpdateLastUsed", profile.err, TRUE)
            /\ UNCHANGED <<fs, CurrentProfile, backups, srcExists, now, snap, budget,
                           input, verdict, configFile>>

\* os.WriteFile in process p, its OpenFile with O_TRUNC: the file is empty,
\* also under every other process that has it open
UluOpens(p) ==
    LET me == procs.state[p]
        metadataPath == Join(Join(ProfilesDir, me.name), MetadataFileName)
    IN  /\ me.pc = "loaded"
        /\ fs' = WriteFile(fs, metadataPath, Raw(""))
        /\ procs' = [procs EXCEPT !.state =
              [q \in Procs |->
                  IF q = p THEN [me EXCEPT !.pc = "opened", !.under = 0]
                  ELSE IF procs.state[q].pc = "opened" /\ procs.state[q].name = me.name
                  THEN [procs.state[q] EXCEPT !.under = 0]
                  ELSE procs.state[q]]]
        /\ last' = Call("UpdateLastUsed", "nil", TRUE)
        /\ UNCHANGED <<CurrentProfile, backups, srcExists, now, snap, budget,
                       input, verdict, configFile>>

\* os.WriteFile in process p, its Write at offset 0 and Close: bytes written
\* since p opened the file stay behind p's bytes where they reach further
UluWrites(p) ==
    LET me == procs.state[p]
        metadataPath == Join(Join(ProfilesDir, me.name), MetadataFileName)
        length == IF me.under > me.size THEN me.under ELSE me.size
    IN  /\ me.pc = "opened"
        /\ fs' = WriteFile(fs, metadataPath,
                           IF me.under > me.size THEN Raw("torn")
                           ELSE Meta(Marshal(me.meta)))
        /\ procs' = [state |->
              [q \in Procs |->
                  IF q = p THEN [me EXCEPT !.pc = "done"]
                  ELSE IF procs.state[q].pc = "opened" /\ procs.state[q].name = me.name
                  THEN [procs.state[q] EXCEPT !.under = length]
                  ELSE procs.state[q]],
                      writer |-> p]
        /\ last' = Call("UpdateLastUsed", "nil", TRUE)
        /\ UNCHANGED <<CurrentProfile, backups, srcExists, now, snap, budget,
                       input, verdict, configFile>>

UluLoadStep == \E p \in Procs : UluLoads(p)
UluOpenStep == \E p \in Procs : UluOpens(p)
UluWriteStep == \E p \in Procs : UluWrites(p)

\* the user edits or removes the settings file of a profile
EditSettingsStep ==
    \E name \in ValidNames, data \in SettingsInputs :
        LET settingsPath == Join(Join(ProfilesDir, name), ClaudeSettingsFile)
        IN  /\ Budget
            /\ IsDir(fs, Join(ProfilesDir, name))
            /\ fs' = IF data = NoFile THEN RemoveAll(fs, settingsPath)
                      ELSE WriteFile(fs, settingsPath, data)
            /\ last' = Call("EditSettings", "nil", fs' # fs)
            /\ UNCHANGED <<CurrentProfile, backups, srcExists, now, snap, input, verdict, configFile, procs>>

ApplyTemplateStep ==
    \E name \in ValidNames, content \in ContentInputs :
        /\ Budget
        /\ IsDir(fs, Join(ProfilesDir, name))
        /\ fs' = ApplyContent(fs, Join(ProfilesDir, name), content)
        /\ last' = Call("ApplyTemplate", "nil", fs' # fs)
        /\ UNCHANGED <<CurrentProfile, backups, srcExists, now, snap, input, verdict, configFile, procs>>

\* the user puts a file into the backup directory
DropStep ==
    \E name \in DropInputs \ DOMAIN backups :
        /\ Budget
        /\ backups' = (name :> <<>>) @@ backups
        /\ last' = Call("Drop", "nil", TRUE)
        /\ UNCHANGED <<fs, CurrentProfile, srcExists, now, snap, input, verdict, configFile, procs>>

BackupListStep ==
    /\ Budget
    /\ last' = Call("BackupList", "nil", FALSE)
    /\ UNCHANGED <<fs, CurrentProfile, backups, srcExists, now, snap, input, verdict, configFile, procs>>

\* a day passes
Sleep ==
    /\ Budget
    /\ now < MaxDays * SecondsPerDay
    /\ now' = now + SecondsPerDay
    /\ last' = Call("Sleep", "nil", TRUE)
    /\ UNCHANGED <<fs, CurrentProfile, backups, srcExists, snap, input, verdict, configFile, procs>>

ListProfilesStep ==
    /\ Budget
    /\ last' = Call("ListProfiles", ListProfilesErr(fs), FALSE)
    /\ UNCHANGED <<fs, CurrentProfile, backups, srcExists, now, snap, input, verdict, configFile, procs>>

\* the user damages the storage root by hand: garbage in a metadata file, a
\* metadata or configuration file removed, a regular file put directly in the
\* root, the root removed with all it holds
DamageStep ==
    \E name \in ValidNames,
       how \in {"garble", "remove", "unconfig", "stray", "wipe"} :
        LET metadataPath == Join(Join(ProfilesDir, name), MetadataFileName)
            configPath == Join(Join(ProfilesDir, name), ClaudeConfigFile)
        IN  /\ Budget
            /\ how \in {"garble", "remove"} => Exists(fs, metadataPath)
            /\ how = "unconfig" => Exists(fs, configPath)
            /\ how = "stray" => (/\ IsDir(fs, ProfilesDir)
                                 /\ ~Exists(fs, Join(ProfilesDir, Notes)))
            /\ how = "wipe" => Exists(fs, ProfilesDir)
            /\ fs' = CASE how = "garble" -> WriteFile(fs, metadataPath, Raw("A"))
                       [] how = "remove" -> RemoveAll(fs, metadataPath)
                       [] how = "unconfig" -> RemoveAll(fs, configPath)
                       [] how = "stray" -> WriteFile(fs, Join(ProfilesDir, Notes), Raw("A"))
                       [] how = "wipe" -> RemoveAll(fs, ProfilesDir)
            /\ last' = Call("Damage", "nil", TRUE)
            /\ UNCHANGED <<CurrentProfile, backups, srcExists, now, snap, input, verdict, configFile, procs>>

\* the launched tool writes a file below the directory of a profile
ToolWriteStep ==
    \E name \in ValidNames, w \in ToolWrites :
        LET target == Join(ProfilesDir, name) \o w[1]
        IN  /\ Budget
            /\ IsDir(fs, Join(ProfilesDir, name))
            /\ MkdirAllOK(fs, Parent(target))
            /\ fs' = WriteFile(MkdirAll(fs, Parent(target)), target, Raw(w[2]))
            /\ last' = Call("ToolWrite", "nil", TRUE)
            /\ UNCHANGED <<CurrentProfile, backups, srcExists, now, snap, input, verdict, configFile, procs>>

Tick ==
    /\ Budget
    /\ now < MaxClock
    /\ now' = now + 1
    /\ last' = Call("Tick", "nil", TRUE)
    /\ UNCHANGED <<fs, CurrentProfile, backups, srcExists, snap, input, verdict, configFile, procs>>

Next ==
    \/ CreateProfileStep
    \/ DeleteProfileStep
    \/ GetProfileStep
    \/ UpdateLastUsedStep
    \/ CloneProfileStep
    \/ RenameProfileStep
    \/ ImportProfileStep
    \/ HandleSwitchStep
    \/ BackupStep
    \/ RestoreStep
    \/ BackupDeleteStep
    \/ ToolWriteStep
    \/ Tick

Spec == Init /\ [][Next]_vars

-----------------------------------------------------------------------------
\* ValidateName on its own, over short strings and strings around the limit

TestChars == {"a", "Z", "5", "_", "-", " ", "!", "."}

Fill(c, n) == [i \in 1..n |-> c]

ShortStrings ==
    UNION {[1..n -> TestChars] : n \in 0..MaxTestLen}

LongStrings ==
    {Fill(c, n) : c \in TestChars, n \in (MaxNameLen - 1)..(MaxNameLen + 1)}
    \cup {Append(Fill("a", n - 1), c) :
             c \in TestChars, n \in (MaxNameLen - 1)..(MaxNameLen + 1)}

TestStrings == ShortStrings \cup LongStrings

ValidateNameStep ==
    \E s \in TestStrings :
        /\ input' = s
        /\ verdict' = ValidateName(s)
        /\ UNCHANGED <<fs, CurrentProfile, backups, srcExists, now, last, snap, budget,
                     configFile, procs>>

SpecValidate == Init /\ [][ValidateNameStep]_vars

\* The backup subsystem on its own, explored one call deeper
InitBackup ==
    /\ fs = (ProfilesDir :> DirNode)
    /\ CurrentProfile = <<>>
    /\ backups = <<>>
    /\ srcExists = TRUE
    /\ now = 1
    /\ last = Call("none", "nil", TRUE)
    /\ snap = <<>>
    /\ budget = MaxBackupSteps
    /\ input = <<>>
    /\ verdict = "none"
    /\ configFile = Save(Cfg(<<>>))
    /\ procs = NoProcs

NextBackup ==
    \/ CreateProfileStep
    \/ DeleteProfileStep
    \/ BackupStep
    \/ RestoreStep
    \/ BackupDeleteStep
    \/ ToolWriteStep
    \/ Tick

SpecBackup == InitBackup /\ [][NextBackup]_vars

\* Restore with renamed archives and failing extractions
InitRestore ==
    /\ fs = (ProfilesDir :> DirNode)
    /\ CurrentProfile = <<>>
    /\ backups = <<>>
    /\ srcExists = TRUE
    /\ now = 1
    /\ last = Call("none", "nil", TRUE)
    /\ snap = <<>>
    /\ budget = MaxRestoreSteps
    /\ input = <<>>
    /\ verdict = "none"
    /\ configFile = Save(Cfg(<<>>))
    /\ procs = NoProcs

NextRestore ==
    \/ CreateProfileStep
    \/ ToolWriteStep
    \/ BackupStep
    \/ ArchiveMoveStep
    \/ RestoreStep

SpecRestore == InitRestore /\ [][NextRestore]_vars

\* The operations on profile directories, with archives present
InitFrame ==
    /\ fs = (ProfilesDir :> DirNode)
    /\ CurrentProfile = <<>>
    /\ backups = <<>>
    /\ srcExists = TRUE
    /\ now = 1
    /\ last = Call("none", "nil", TRUE)
    /\ snap = <<>>
    /\ budget = MaxFrameSteps
    /\ input = <<>>
    /\ verdict = "none"
    /\ configFile = Save(Cfg(<<>>))
    /\ procs = NoProcs

NextFrame ==
    \/ CreateProfileStep
    \/ DeleteProfileStep
    \/ UpdateLastUsedStep
    \/ CloneProfileStep
    \/ RenamePathStep
    \/ BackupStep

SpecFrame == InitFrame /\ [][NextFrame]_vars

\* Restore of archives Backup wrote and of archives from elsewhere
InitExtract ==
    /\ fs = (ProfilesDir :> DirNode)
    /\ CurrentProfile = <<>>
    /\ backups = <<>>
    /\ srcExists = TRUE
    /\ now = 1
    /\ last = Call("none", "nil", TRUE)
    /\ snap = <<>>
    /\ budget = MaxExtractSteps
    /\ input = <<>>
    /\ verdict = "none"
    /\ configFile = Save(Cfg(<<>>))
    /\ procs = NoProcs

NextExtract ==
    \/ CreateProfileStep
    \/ BackupStep
    \/ ArchivePlaceStep
    \/ RestoreStep

SpecExtract == InitExtract /\ [][NextExtract]_vars

\* Listing, over storage roots with used, unused and damaged profiles
InitList ==
    /\ fs = (ProfilesDir :> DirNode)
    /\ CurrentProfile = <<>>
    /\ backups = <<>>
    /\ srcExists = TRUE
    /\ now = 1
    /\ last = Call("none", "nil", TRUE)
    /\ snap = <<>>
    /\ budget = MaxListSteps
    /\ input = <<>>
    /\ verdict = "none"
    /\ configFile = Save(Cfg(<<>>))
    /\ procs = NoProcs

NextList ==
    \/ CreateProfileStep
    \/ UpdateLastUsedStep
    \/ Tick
    \/ DamageStep
    \/ ListProfilesStep
    \/ HandleSwitchStep

SpecList == InitList /\ [][NextList]_vars

\* Cleanup of archives of different ages
InitCleanup ==
    /\ fs = (ProfilesDir :> DirNode)
    /\ CurrentProfile = <<>>
    /\ backups = <<>>
    /\ srcExists = TRUE
    /\ now = 1
    /\ last = Call("none", "nil", TRUE)
    /\ snap = <<>>
    /\ budget = MaxCleanupSteps
    /\ input = <<>>
    /\ verdict = "none"
    /\ configFile = Save(Cfg(<<>>))
    /\ procs = NoProcs

NextCleanup ==
    \/ CreateProfileStep
    \/ BackupStep
    \/ Tick
    \/ Sleep
    \/ CleanupStep

SpecCleanup == InitCleanup /\ [][NextCleanup]_vars

\* The config file from before cdp init on, the Config a ProfileManager
\* holds, and another process writing the file
InitConfig ==
    /\ fs = [q \in {} |-> DirNode]
    /\ CurrentProfile = <<>>
    /\ backups = <<>>
    /\ srcExists = TRUE
    /\ now = 1
    /\ last = Call("none", "nil", TRUE)
    /\ snap = <<>>
    /\ budget = MaxConfigSteps
    /\ input = <<>>
    /\ verdict = "none"
    /\ configFile = NoConfigFile
    /\ procs = NoProcs

NextConfig ==
    \/ ConfigInitStep
    \/ LoadStep
    \/ SetCurrentProfileStep
    \/ OtherProcessSwitchStep
    \/ CreateProfileStep
    \/ DeleteProfileStep
    \/ RenameProfileStep

SpecConfig == InitConfig /\ [][NextConfig]_vars

\* Two processes, each calling UpdateLastUsed once
InitConcurrent ==
    /\ fs = (ProfilesDir :> DirNode)
    /\ CurrentProfile = <<>>
    /\ backups = <<>>
    /\ srcExists = TRUE
    /\ now = 1
    /\ last = Call("none", "nil", TRUE)
    /\ snap = <<>>
    /\ budget = MaxConcurrentSteps
    /\ input = <<>>
    /\ verdict = "none"
    /\ configFile = Save(Cfg(<<>>))
    /\ procs = NoProcs

NextConcurrent ==
    \/ CreateProfileStep
    \/ Tick
    \/ UluLoadStep
    \/ UluOpenStep
    \/ UluWriteStep

SpecConcurrent == InitConcurrent /\ [][NextConcurrent]_vars

\* Templates applied to settings files in the states users leave them in
InitTemplate ==
    /\ fs = (ProfilesDir :> DirNode)
    /\ CurrentProfile = <<>>
    /\ backups = <<>>
    /\ srcExists = TRUE
    /\ now = 1
    /\ last = Call("none", "nil", TRUE)
    /\ snap = <<>>
    /\ budget = MaxTemplateSteps
    /\ input = <<>>
    /\ verdict = "none"
    /\ configFile = Save(Cfg(<<>>))
    /\ procs = NoProcs

NextTemplate ==
    \/ CreateProfileStep
    \/ EditSettingsStep
    \/ ApplyTemplateStep

SpecTemplate == InitTemplate /\ [][NextTemplate]_vars

\* Listing and cleaning a backup directory that also holds files put there
\* by hand
InitArchives ==
    /\ fs = (ProfilesDir :> DirNode)
    /\ CurrentProfile = <<>>
    /\ backups = <<>>
    /\ srcExists = TRUE
    /\ now = 1
    /\ last = Call("none", "nil", TRUE)
    /\ snap = <<>>
    /\ budget = MaxArchiveSteps
    /\ input = <<>>
    /\ verdict = "none"
    /\ configFile = Save(Cfg(<<>>))
    /\ procs = NoProcs

NextArchives ==
    \/ CreateProfileStep
    \/ BackupStep
    \/ Tick
    \/ DropStep
    \/ BackupListStep
    \/ CleanupStep

SpecArchives == InitArchives /\ [][NextArchives]_vars

-----------------------------------------------------------------------------
\* Properties

ProfilePath(name) == Join(ProfilesDir, name)

\* C1: in every reachable state, DeleteProfile of the active profile name
\* fails and leaves the whole tree, and so the profile's directory and files,
\* as they were.
C1_DeleteActiveFails ==
    LET r == DeleteProfile(CurrentProfile)
    IN  /\ r.err # "nil"
        /\ r.fs = fs
        /\ SubTree(r.fs, ProfilePath(CurrentProfile))
              = SubTree(fs, ProfilePath(CurrentProfile))

C1_Witness ==
    /\ last.op = "DeleteProfile"
    /\ last.err = "ProtectedState"
    /\ CurrentProfile \in ValidNames
    /\ ProfileExists(CurrentProfile)

\* C2: a profile that exists and is active stays so over every step that is
\* not a Switch: its directory is still there and it is still the active one.
C2_ActiveLeavesOnlyBySwitch ==
    [][(/\ CurrentProfile # <<>>
        /\ ProfileExists(CurrentProfile)
        /\ last'.op # "Switch")
       => (/\ CurrentProfile' = CurrentProfile
           /\ Exists(fs', ProfilePath(CurrentProfile)))]_vars

\* C3: RenameProfile of the active profile fails whatever the new name is;
\* the tree is unchanged, so the old directory, if there was one, is still
\* there with the same contents and the new name is not created; the step
\* leaves the active profile name as it was.
C3_RenameActiveFails ==
    /\ [](CurrentProfile # <<>> =>
            \A newName \in NameInputs :
                LET r == RenameProfile(CurrentProfile, newName)
                IN  /\ r.err # "nil"
                    /\ r.fs = fs
                    /\ ProfileExists(CurrentProfile) =>
                          /\ Exists(r.fs, ProfilePath(CurrentProfile))
                          /\ SubTree(r.fs, ProfilePath(CurrentProfile))
                                = SubTree(fs, ProfilePath(CurrentProfile))
                    /\ ~ProfileExists(newName) =>
                          ~Exists(r.fs, ProfilePath(newName)))
    /\ [][last'.op = "RenameProfile" => CurrentProfile' = CurrentProfile]_vars

C3_Witness ==
    /\ last.op = "RenameProfile"
    /\ last.err = "ProtectedState"
    /\ CurrentProfile \in ValidNames
    /\ ProfileExists(CurrentProfile)
    /\ \E newName \in ValidNames : ~ProfileExists(newName)

\* C4: a name ValidateName rejects makes every operation that takes a
\* profile name fail and change neither the tree nor the archives; the same
\* for Restore of an archive whose derived name ValidateName rejects.
C4_InvalidNameNeverAccepted ==
    /\ \A name \in NameInputs : ValidateName(name) # "nil" =>
          /\ \A t \in TemplateInputs :
                LET r == CreateProfileWithTemplate(name, <<"w">>, t)
                IN  r.err # "nil" /\ r.fs = fs
          /\ DeleteProfile(name).err # "nil" /\ DeleteProfile(name).fs = fs
          /\ GetProfile(fs, name).err # "nil"
          /\ UpdateLastUsed(fs, name).err # "nil" /\ UpdateLastUsed(fs, name).fs = fs
          /\ \A other \in NameInputs :
                /\ CloneProfile(name, other).err # "nil"
                /\ CloneProfile(name, other).fs = fs
                /\ CloneProfile(other, name).err # "nil"
                /\ CloneProfile(other, name).fs = fs
                /\ RenameProfile(name, other).err # "nil"
                /\ RenameProfile(name, other).fs = fs
                /\ RenameProfile(other, name).err # "nil"
                /\ RenameProfile(other, name).fs = fs
          /\ \A ow \in BOOLEAN, pr \in BOOLEAN :
                LET r == ImportProfile(name, <<"w">>, ow, pr)
                IN  r.err # "nil" /\ r.fs = fs
          /\ Backup(name).err # "nil"
    /\ \A baseName \in DOMAIN backups, overwrite \in BOOLEAN :
          (/\ Len(NameParts(baseName)) >= 3
           /\ ValidateName(DerivedProfileName(NameParts(baseName))) # "nil")
          => LET r == Restore(baseName, overwrite)
             IN  r.err # "nil" /\ r.fs = fs

\* C5: ValidateName accepts a string exactly when it has between 1 and 50
\* characters and each of them is a letter, a digit, an underscore or a hyphen.
InClass(c) ==
    \/ \E i \in 6..15 : AsciiOrder[i] = c
    \/ \E i \in 16..41 : AsciiOrder[i] = c
    \/ \E i \in 43..68 : AsciiOrder[i] = c
    \/ c = "_"
    \/ c = "-"

C5_ValidateNameIff ==
    verdict # "none" =>
        (verdict = "nil"
           <=> (/\ Len(input) >= 1
                /\ Len(input) <= 50
                /\ \A i \in 1..Len(input) : InClass(input[i])))

C5_Witness ==
    /\ verdict = "nil"
    /\ Len(input) = 50

\* C6: CreateProfile for a name that a profile already has (as after a first
\* successful CreateProfile of that name) fails with AlreadyExists, whatever
\* the description and template, and leaves the tree, and so the first
\* profile's directory, metadata and files, unchanged.
C6_SecondCreateFails ==
    \A name \in NameInputs, description \in {<<"w">>, <<"v">>},
       template \in TemplateInputs :
        (ValidateName(name) = "nil" /\ ProfileExists(name)) =>
            LET r == CreateProfileWithTemplate(name, description, template)
            IN  /\ r.err = "AlreadyExists"
                /\ r.fs = fs
                /\ SubTree(r.fs, ProfilePath(name)) = SubTree(fs, ProfilePath(name))

C6_Witness ==
    /\ last.op = "CreateProfile"
    /\ last.err = "AlreadyExists"
    /\ \E name \in ValidNames : loadMetadataOK(fs, ProfilePath(name))

\* C7: RenameProfile(a, b) where a exists and b is an existing profile fails
\* with AlreadyExists and leaves both directories with their contents.
C7_RenameOntoExistingFails ==
    \A a \in NameInputs, b \in NameInputs :
        (ProfileExists(a) /\ ValidateName(b) = "nil" /\ ProfileExists(b)) =>
            LET r == RenameProfile(a, b)
            IN  /\ r.err = "AlreadyExists"
                /\ r.fs = fs
                /\ Exists(r.fs, ProfilePath(a))
                /\ Exists(r.fs, ProfilePath(b))
                /\ SubTree(r.fs, ProfilePath(a)) = SubTree(fs, ProfilePath(a))
                /\ SubTree(r.fs, ProfilePath(b)) = SubTree(fs, ProfilePath(b))

C7_Witness ==
    /\ last.op = "RenameProfile"
    /\ last.err = "AlreadyExists"
    /\ \A name \in ValidNames : ProfileExists(name)
    /\ SubTree(fs, ProfilePath(Work)) # SubTree(fs, ProfilePath(Dev1))

\* C8: for every archive Backup wrote, whenever the directory of the profile
\* it was taken from is gone, Restore without overwrite succeeds and the
\* directory it creates is the tree Backup saw: the same files with the same
\* bytes at the same relative paths, nested ones included, and nothing else.
C8_BackupRestoreRoundTrip ==
    \A baseName \in DOMAIN backups :
        LET p == snap[baseName].profileName
            r == Restore(baseName, FALSE)
        IN  ~ProfileExists(p) =>
                /\ r.err = "nil"
                /\ Exists(r.fs, ProfilePath(p))
                /\ SubTree(r.fs, ProfilePath(p)) = snap[baseName].tree
                /\ \A rel \in DOMAIN snap[baseName].tree :
                      r.fs[ProfilePath(p) \o rel] = snap[baseName].tree[rel]

C8_Witness ==
    /\ last.op = "Restore"
    /\ last.err = "nil"
    /\ ~last.flag
    /\ \E baseName \in DOMAIN backups :
          LET p == snap[baseName].profileName
          IN  /\ p \in ValidNames
              /\ <<Cache, Blob>> \in DOMAIN snap[baseName].tree
              /\ Exists(fs, ProfilePath(p) \o <<Cache, Blob>>)
              /\ SubTree(fs, ProfilePath(p)) = snap[baseName].tree

\* valid names made of hyphens, or ending in groups shaped like a timestamp
HyphenNames ==
    {Dev1, <<"-">>, <<"-", "-">>, <<"a", "-">>, <<"-", "1">>,
     Work \o <<"-">> \o FormatTimestamp(now)}

\* C9: for every archive Backup wrote for a valid profile name p, List reports
\* ProfileName p for it, and Restore, when it succeeds, returns p and leaves
\* the backed-up tree in the directory named p; the name derived from the
\* archive name Backup would choose is p also for names full of hyphens.
C9_DerivedNameIsBackedUpName ==
    /\ \A baseName \in DOMAIN backups :
          LET p == snap[baseName].profileName
          IN  ValidateName(p) = "nil" =>
                /\ [Name |-> baseName, ProfileName |-> p] \in List
                /\ \A overwrite \in BOOLEAN :
                      LET r == Restore(baseName, overwrite)
                      IN  /\ r.err \in {"nil", "ExistsNoOverwrite"}
                          /\ overwrite => r.err = "nil"
                          /\ r.err = "nil" =>
                                /\ r.profileName = p
                                /\ SubTree(r.fs, ProfilePath(p)) = snap[baseName].tree
    /\ \A name \in HyphenNames :
          /\ ValidateName(name) = "nil"
          /\ Len(NameParts(BackupName(name, now))) >= 3
          /\ DerivedProfileName(NameParts(BackupName(name, now))) = name

C9_Witness ==
    /\ last.op = "Restore"
    /\ last.err = "nil"
    /\ ProfileExists(Dev1)
    /\ \E baseName \in DOMAIN backups :
          /\ snap[baseName].profileName = Dev1
          /\ SubTree(fs, ProfilePath(Dev1)) = snap[baseName].tree

\* C10: Restore without overwrite of an archive whose derived profile
\* directory exists fails with ExistsNoOverwrite and leaves the tree, and so
\* that profile's directory and files, unchanged.
C10_RestoreNoOverwriteFails ==
    \A baseName \in DOMAIN backups :
        LET parts == NameParts(baseName)
            r == Restore(baseName, FALSE)
        IN  (Len(parts) >= 3 /\ ProfileExists(DerivedProfileName(parts))) =>
                /\ r.err = "ExistsNoOverwrite"
                /\ r.fs = fs

C10_Witness ==
    /\ last.op = "Restore"
    /\ last.err = "ExistsNoOverwrite"
    /\ ~last.flag
    /\ \E baseName \in DOMAIN backups :
          LET p == snap[baseName].profileName
          IN  /\ p \in ValidNames
              /\ ProfileExists(p)
              /\ SubTree(fs, ProfilePath(p)) # snap[baseName].tree

\* the tree an archive describes: relative path -> node
ArchiveNames(entries) == {entries[i].Name : i \in 1..Len(entries)}

\* C11: whenever Restore with overwrite succeeds onto a directory that is
\* there, the directory then holds exactly the entries of the archive: each
\* path below it is an entry of the archive with the archive's type and bytes,
\* each entry is there, each path that was there before and is not in the
\* archive is gone, and for an archive Backup wrote the tree is the
\* one Backup saw.
C11_RestoreOverwriteReplaces ==
    \A baseName \in DOMAIN backups, failAt \in FailPoints :
        LET entries == backups[baseName]
            path == ProfilePath(DerivedProfileName(NameParts(baseName)))
            r == RestoreWith(baseName, TRUE, failAt)
            after == SubTree(r.fs, path)
        IN  (TargetExists(baseName) /\ r.err = "nil") =>
                /\ \A rel \in DOMAIN after \ {<<>>} :
                      \E i \in 1..Len(entries) :
                          /\ entries[i].Name = JoinStr(rel, "/")
                          /\ entries[i].Typeflag = "dir" => after[rel] = DirNode
                          /\ entries[i].Typeflag = "reg" =>
                                after[rel] = FileNode(entries[i].data)
                /\ \A i \in 1..Len(entries) :
                      Exists(r.fs, JoinPath(path, entries[i].Name))
                /\ \A rel \in DOMAIN SubTree(fs, path) \ {<<>>} :
                      JoinStr(rel, "/") \notin ArchiveNames(entries) =>
                          ~Exists(r.fs, path \o rel)
                /\ baseName \in DOMAIN snap => after = snap[baseName].tree

C11_Witness ==
    /\ last.op = "Restore"
    /\ last.err = "nil"
    /\ last.flag
    /\ last.existed
    /\ last.changed
    /\ \E baseName \in DOMAIN snap :
          LET p == snap[baseName].profileName
          IN  /\ p \in ValidNames
              /\ SubTree(fs, ProfilePath(p)) = snap[baseName].tree

\* C12: a Restore that gets as far as the extraction loop and has a read or
\* a filesystem call fail there returns an error and leaves no directory of
\* the derived name, also when it was given overwrite and a directory of that
\* name was there before the call.
C12_FailedRestoreRemovesTarget ==
    \A baseName \in DOMAIN backups, overwrite \in BOOLEAN :
        \A failAt \in 1..(Len(backups[baseName]) + 1) :
            LET path == ProfilePath(DerivedProfileName(NameParts(baseName)))
                r == RestoreWith(baseName, overwrite, failAt)
            IN  (/\ ValidFormat(NameParts(baseName))
                 /\ TargetExists(baseName) => overwrite) =>
                    /\ r.err # "nil"
                    /\ ~Exists(r.fs, path)

C12_Witness ==
    /\ last.op = "Restore"
    /\ last.err = "IOError"
    /\ last.flag
    /\ last.existed
    /\ \E name \in ValidNames : ~ProfileExists(name)
    /\ \E baseName \in DOMAIN snap : ~ProfileExists(snap[baseName].profileName)

\* C13 as stated: Restore of any archive path whose file name without its
\* extension has fewer than three hyphen-delimited parts fails with
\* InvalidFormat and leaves the tree unchanged.
C13_ShortNameInvalidFormat ==
    \A baseName \in ArchiveInputs \cup ShortArchiveNames,
       overwrite \in BOOLEAN, failAt \in FailPoints :
        LET r == RestoreWith(baseName, overwrite, failAt)
        IN  Len(NameParts(baseName)) < 3 =>
                /\ r.err = "InvalidFormat"
                /\ r.fs = fs

\* C13 amended: Restore of an archive path whose file name without its
\* extension has fewer than three hyphen-delimited parts fails and leaves the
\* tree unchanged, with InvalidFormat when the file is there to be opened.
C13_ShortNameFails ==
    \A baseName \in ArchiveInputs \cup ShortArchiveNames,
       overwrite \in BOOLEAN, failAt \in FailPoints :
        LET r == RestoreWith(baseName, overwrite, failAt)
        IN  Len(NameParts(baseName)) < 3 =>
                /\ r.err # "nil"
                /\ r.fs = fs
                /\ baseName \in DOMAIN backups => r.err = "InvalidFormat"

C13_Witness ==
    /\ last.op = "Restore"
    /\ last.err = "InvalidFormat"
    /\ \E baseName \in DOMAIN backups : Len(NameParts(baseName)) < 3
    /\ \E name \in ValidNames : ProfileExists(name)

\* C14: whenever CloneProfile(source, dest) succeeds, dest's metadata has
\* usage count 0 and no last-used time, whatever source's are, and source's
\* metadata, like the rest of its directory, is as it was.
C14_CloneResetsUsage ==
    \A source \in NameInputs, dest \in NameInputs :
        LET r == CloneProfile(source, dest)
        IN  r.err = "nil" =>
                /\ loadMetadataOK(r.fs, ProfilePath(dest))
                /\ loadMetadata(r.fs, ProfilePath(dest)).UsageCount = 0
                /\ loadMetadata(r.fs, ProfilePath(dest)).LastUsed = ZeroTime
                /\ GetProfile(r.fs, dest).Metadata.UsageCount = 0
                /\ loadMetadata(r.fs, ProfilePath(source))
                      = loadMetadata(fs, ProfilePath(source))
                /\ SubTree(r.fs, ProfilePath(source))
                      = SubTree(fs, ProfilePath(source))

C14_Witness ==
    /\ last.op = "CloneProfile"
    /\ last.err = "nil"
    /\ \E source \in ValidNames, dest \in ValidNames :
          /\ loadMetadataOK(fs, ProfilePath(source))
          /\ loadMetadataOK(fs, ProfilePath(dest))
          /\ loadMetadata(fs, ProfilePath(source)).UsageCount >= 1
          /\ loadMetadata(fs, ProfilePath(source)).LastUsed # ZeroTime
          /\ loadMetadata(fs, ProfilePath(dest)).Description = ClonedFrom(source)
          /\ loadMetadata(fs, ProfilePath(dest)).UsageCount = 0

\* C15: whenever CloneProfile(source, dest) succeeds, every regular file
\* directly in source other than the metadata file is in dest with the same
\* bytes, dest holds nothing but regular files directly in it, one for each
\* regular file directly in source, and so no subdirectory.
C15_CloneCopiesTopLevelFiles ==
    \A source \in NameInputs, dest \in NameInputs :
        LET r == CloneProfile(source, dest)
            src == ProfilePath(source)
            dst == ProfilePath(dest)
            files == {n \in Children(fs, src) : fs[Join(src, n)].type = "file"}
        IN  r.err = "nil" =>
                /\ \A n \in files \ {MetadataFileName} :
                      /\ Exists(r.fs, Join(dst, n))
                      /\ r.fs[Join(dst, n)] = fs[Join(src, n)]
                /\ Children(r.fs, dst) = files
                /\ \A rel \in DOMAIN SubTree(r.fs, dst) \ {<<>>} :
                      /\ Len(rel) = 1
                      /\ r.fs[dst \o rel].type = "file"

C15_Witness ==
    /\ last.op = "CloneProfile"
    /\ last.err = "nil"
    /\ \E source \in ValidNames, dest \in ValidNames :
          /\ loadMetadata(fs, ProfilePath(dest)).Description = ClonedFrom(source)
          /\ IsDir(fs, Join(ProfilePath(source), Cache))
          /\ Exists(fs, ProfilePath(source) \o <<Cache, Blob>>)
          /\ ~Exists(fs, Join(ProfilePath(dest), Cache))
          /\ Exists(fs, Join(ProfilePath(source), Notes))
          /\ fs[Join(ProfilePath(dest), Notes)] = fs[Join(ProfilePath(source), Notes)]

\* the tree after k calls of UpdateLastUsed(name) in a row
RECURSIVE UsedTimes(_, _, _)
UsedTimes(f, name, k) ==
    IF k = 0 THEN f ELSE UsedTimes(UpdateLastUsed(f, name).fs, name, k - 1)

\* C18: in every reachable state, a profile a successful CreateProfile makes
\* is read back by GetProfile with usage count 0, the description given and no
\* last-used time, and after k calls of UpdateLastUsed on it in a row with
\* usage count k, a last-used time when k >= 1, and the description, creation
\* time, template and flags it was created with; and on every profile there
\* is, a successful UpdateLastUsed adds one to the usage count, sets the
\* last-used time and leaves the other four fields and every other file.
C18_UsageCountsCalls ==
    /\ \A name \in NameInputs, description \in {<<>>, <<"w">>},
          template \in TemplateInputs, k \in 0..(MaxUsage + 2) :
          LET r == CreateProfileWithTemplate(name, description, template)
              made == GetProfile(r.fs, name)
              used == GetProfile(UsedTimes(r.fs, name, k), name)
          IN  r.err = "nil" =>
                /\ made.err = "nil"
                /\ made.Metadata.UsageCount = 0
                /\ made.Metadata.Description = description
                /\ made.Metadata.LastUsed = ZeroTime
                /\ used.err = "nil"
                /\ used.Metadata.UsageCount = k
                /\ k >= 1 => used.Metadata.LastUsed # ZeroTime
                /\ used.Metadata.Description = description
                /\ used.Metadata.CreatedAt = made.Metadata.CreatedAt
                /\ used.Metadata.Template = made.Metadata.Template
                /\ used.Metadata.CustomFlags = made.Metadata.CustomFlags
    /\ \A name \in NameInputs :
          LET before == GetProfile(fs, name)
              u == UpdateLastUsed(fs, name)
              after == GetProfile(u.fs, name)
          IN  before.err = "nil" =>
                /\ u.err = "nil"
                /\ after.err = "nil"
                /\ after.Metadata.UsageCount = before.Metadata.UsageCount + 1
                /\ after.Metadata.LastUsed # ZeroTime
                /\ after.Metadata.Description = before.Metadata.Description
                /\ after.Metadata.CreatedAt = before.Metadata.CreatedAt
                /\ after.Metadata.Template = before.Metadata.Template
                /\ after.Metadata.CustomFlags = before.Metadata.CustomFlags
                /\ \A q \in DOMAIN fs :
                      q # Join(ProfilePath(name), MetadataFileName) =>
                          (Exists(u.fs, q) /\ u.fs[q] = fs[q])
                /\ DOMAIN u.fs = DOMAIN fs

C18_Witness ==
    /\ last.op = "UpdateLastUsed"
    /\ last.err = "nil"
    /\ \E name \in ValidNames :
          LET profile == GetProfile(fs, name)
          IN  /\ profile.err = "nil"
              /\ profile.Metadata.UsageCount = 1
              /\ profile.Metadata.LastUsed # ZeroTime
              /\ profile.Metadata.LastUsed # profile.Metadata.CreatedAt
              /\ profile.Metadata.Description = <<"w">>
              /\ profile.Metadata.Template = "restrictive"

\* a list in the order C19 describes
Ordered(s) ==
    \A i, j \in 1..Len(s) : i < j =>
        /\ s[i].Metadata.LastUsed = ZeroTime => s[j].Metadata.LastUsed = ZeroTime
        /\ (s[i].Metadata.LastUsed # ZeroTime /\ s[j].Metadata.LastUsed # ZeroTime)
              => s[i].Metadata.LastUsed >= s[j].Metadata.LastUsed
        /\ (s[i].Metadata.LastUsed = ZeroTime /\ s[j].Metadata.LastUsed = ZeroTime)
              => StrLess(s[i].Name, s[j].Name)

\* sets of up to three profiles with distinct names and any last-used times
SampleProfileSets ==
    LET names == {<<"a">>, <<"B">>, <<"b", "-", "1">>}
        profile(n, t) == [Name |-> n, Path |-> Join(ProfilesDir, n),
                          Metadata |-> [Unmarshal(NoFields) EXCEPT !.LastUsed = t]]
    IN  UNION {{{profile(n, when[n]) : n \in chosen} :
                   when \in [chosen -> 0..MaxClock]} : chosen \in SUBSET names}

\* C19: every list ListProfiles can return has the profiles with a last-used
\* time first, latest first, and then those without one by name ascending;
\* the same for the sort on its own over sets of three profiles.
C19_ListOrder ==
    /\ ListProfiles(fs) # {}
    /\ \A s \in ListProfiles(fs) : Ordered(s)
    /\ \A profiles \in SampleProfileSets :
          /\ SortSlice(profiles) # {}
          /\ \A s \in SortSlice(profiles) : Ordered(s)

C19_Witness ==
    /\ last.op = "ListProfiles"
    /\ \E s \in ListProfiles(fs) :
          /\ Len(s) = 2
          /\ s[1].Name = Dev1
          /\ s[1].Metadata.LastUsed # ZeroTime
          /\ s[2].Name = Work
          /\ s[2].Metadata.LastUsed = ZeroTime

\* C20: every list ListProfiles can return names, once each, exactly the
\* directories directly in the storage root that hold a metadata file that is
\* a regular file and parses, with the metadata read from it; there is such a
\* list whatever else the root holds (no error), and a ListProfiles step
\* leaves the tree as it was.
C20_ListSkipsDamaged ==
    /\ [](/\ ListProfiles(fs) # {}
          /\ \A s \in ListProfiles(fs) :
                /\ {s[i].Name : i \in 1..Len(s)}
                      = {n \in Children(fs, ProfilesDir) :
                            /\ fs[<<n>>].type = "dir"
                            /\ <<n, MetadataFileName>> \in DOMAIN fs
                            /\ fs[<<n, MetadataFileName>>].type = "file"
                            /\ fs[<<n, MetadataFileName>>].data.kind = "meta"}
                /\ \A i, j \in 1..Len(s) : s[i].Name = s[j].Name => i = j
                /\ \A i \in 1..Len(s) :
                      s[i].Metadata = GetProfile(fs, s[i].Name).Metadata)
    /\ [][last'.op = "ListProfiles" => (fs' = fs /\ last'.err = "nil")]_vars

C20_Witness ==
    /\ last.op = "ListProfiles"
    /\ \E s \in ListProfiles(fs), n \in ValidNames :
          /\ Len(s) = 1
          /\ IsDir(fs, ProfilePath(n))
          /\ s[1].Name # n
          /\ Exists(fs, Join(ProfilePath(n), MetadataFileName))
          /\ ~loadMetadataOK(fs, ProfilePath(n))

\* C16: for the archives Backup wrote that are there, Cleanup(0) removes
\* every one and Cleanup(36500) removes none, in whatever zone it runs.
C16_CleanupExtremes ==
    \A zone \in ZoneOffsets :
        /\ DOMAIN snap \subseteq Cleanup(0, zone).removed
        /\ Cleanup(0, zone).deleted = Cardinality(DOMAIN snap)
        /\ Cleanup(36500, zone).removed = {}
        /\ Cleanup(36500, zone).deleted = 0

\* C17: Cleanup(retentionDays) removes exactly the archives whose file name
\* carries a time, on the clock Backup took it from, more than retentionDays
\* days before now, leaves the others, and returns how many it removed.
C17_CleanupRemovesExactlyOld ==
    \A retentionDays \in RetentionInputs, zone \in ZoneOffsets :
        LET r == Cleanup(retentionDays, zone)
            old == {n \in DOMAIN snap :
                       Before(snap[n].takenAt, now, retentionDays)}
        IN  /\ r.err = "nil"
            /\ r.removed = old
            /\ r.deleted = Cardinality(old)

\* C21: whenever the storage root holds nothing, or is not there at all,
\* ListProfiles returns no error and the empty list and nothing else.
C21_ListEmptyRoot ==
    (Children(fs, ProfilesDir) = {} \/ ~Exists(fs, ProfilesDir)) =>
        /\ ListProfilesErr(fs) = "nil"
        /\ ListProfiles(fs) = {<<>>}

C21_Witness ==
    /\ last.op = "ListProfiles"
    /\ last.err = "nil"
    /\ ~Exists(fs, ProfilesDir)
    /\ ListProfiles(fs) = {<<>>}

\* the templateName inputs that are set and are no built-in template
UnknownTemplates == {"nonexistent"}

\* C22 as stated: CreateProfile with a templateName that is set but unknown
\* fails with TemplateNotFound and no directory of that name exists after
\* the call, whatever the name.
C22_UnknownTemplateNoDirectory ==
    \A name \in ValidNames, description \in Descriptions,
       template \in UnknownTemplates :
        LET r == CreateProfileWithTemplate(name, description, template)
        IN  /\ r.err = "TemplateNotFound"
            /\ ~Exists(r.fs, ProfilePath(name))

\* C22: CreateProfile with a templateName that is set but unknown fails and
\* changes nothing; when the name is valid and no directory of that name
\* exists, the error is TemplateNotFound and no directory of that name exists
\* after the call; a name whose directory exists fails with AlreadyExists
\* and the directory is still there.
C22_UnknownTemplateFails ==
    \A name \in NameInputs, description \in Descriptions,
       template \in UnknownTemplates :
        LET r == CreateProfileWithTemplate(name, description, template)
        IN  /\ r.err # "nil"
            /\ r.fs = fs
            /\ (ValidateName(name) = "nil" /\ ~Exists(fs, ProfilePath(name))) =>
                  /\ r.err = "TemplateNotFound"
                  /\ ~Exists(r.fs, ProfilePath(name))
            /\ (ValidateName(name) = "nil" /\ Exists(fs, ProfilePath(name))) =>
                  /\ r.err = "AlreadyExists"
                  /\ Exists(r.fs, ProfilePath(name))

C22_Witness ==
    /\ last.op = "CreateProfile"
    /\ last.err = "TemplateNotFound"
    /\ ~last.changed
    /\ \E name \in ValidNames : ~Exists(fs, ProfilePath(name))

\* the paths at or below p
Below(f, p) == {q \in DOMAIN f : IsPrefix(p, q)}

\* C23: when a write of CreateProfile or CloneProfile made after the
\* destination directory was created fails, the error returned is that of the
\* first write that failed, nothing is at or below the destination afterwards,
\* and everything that was there before the call is as it was.
C23_FailureRemovesDestination ==
    /\ \A name \in ValidNames, description \in Descriptions,
          template \in BuiltinTemplates \cup {""}, k \in 1..4 :
          \A later \in {{}, (k + 1)..4} :
          LET fails == {k} \cup later
              r == CreateProfileFailing(name, description, template, fails)
          IN  (~Exists(fs, ProfilePath(name)) /\ (k = 4 => template # "")) =>
                  /\ r.err = CreateErrors[k]
                  /\ Below(r.fs, ProfilePath(name)) = {}
                  /\ \A q \in DOMAIN fs : q \in DOMAIN r.fs /\ r.fs[q] = fs[q]
    /\ \A source \in ValidNames, dest \in ValidNames, k \in 1..3 :
          \A later \in {{}, (k + 1)..3} :
          LET fails == {k} \cup later
              r == CloneProfileFailing(source, dest, fails)
          IN  (GetProfile(fs, source).err = "nil" /\ ~Exists(fs, ProfilePath(dest))) =>
                  /\ r.err = CloneErrors[k]
                  /\ Below(r.fs, ProfilePath(dest)) = {}
                  /\ \A q \in DOMAIN fs : q \in DOMAIN r.fs /\ r.fs[q] = fs[q]

C23_Witness ==
    /\ last.op = "CloneProfile"
    /\ last.err = "CopyFailed"
    /\ ~last.changed
    /\ \E source \in ValidNames, dest \in ValidNames :
          /\ GetProfile(fs, source).err = "nil"
          /\ Exists(fs, Join(ProfilePath(source), Notes))
          /\ ~Exists(fs, ProfilePath(dest))

RequiredFiles == {MetadataFileName, ClaudeConfigFile, ClaudeSettingsFile}

\* C24: the profile a successful CreateProfile leaves passes ValidateProfile
\* and holds the metadata file and both placeholder files; ValidateProfile
\* fails for it once any one of the three is removed, and fails for every
\* profile directory in storage that lacks one of the three.
C24_CreatedProfileValidates ==
    /\ \A name \in NameInputs, description \in Descriptions,
          template \in TemplateInputs :
          LET r == CreateProfileWithTemplate(name, description, template)
              path == ProfilePath(name)
          IN  r.err = "nil" =>
                  /\ ValidateProfile(r.fs, path)
                  /\ \A file \in RequiredFiles :
                        /\ Exists(r.fs, Join(path, file))
                        /\ r.fs[Join(path, file)].type = "file"
                        /\ ~ValidateProfile(RemoveAll(r.fs, Join(path, file)), path)
    /\ \A name \in ValidNames :
          (/\ IsDir(fs, ProfilePath(name))
           /\ \E file \in RequiredFiles : ~Exists(fs, Join(ProfilePath(name), file)))
              => ~ValidateProfile(fs, ProfilePath(name))

C24_Witness ==
    /\ last.op = "Damage"
    /\ \E name \in ValidNames, other \in ValidNames :
          /\ ValidateProfile(fs, ProfilePath(name))
          /\ IsDir(fs, ProfilePath(other))
          /\ ~Exists(fs, Join(ProfilePath(other), ClaudeConfigFile))
          /\ Exists(fs, Join(ProfilePath(other), MetadataFileName))
          /\ Exists(fs, Join(ProfilePath(other), ClaudeSettingsFile))
          /\ ~ValidateProfile(fs, ProfilePath(other))

\* C25: HandleSwitch(name) for a name that GetProfile does not find or whose
\* directory fails ValidateProfile returns an error and leaves the persisted
\* active profile name and the storage as they were; when it returns no
\* error the persisted active profile name is name. No step of the program
\* that is a failed switch of these two kinds changes the persisted name.
C25_SwitchGuardsActiveName ==
    /\ [](\A name \in NameInputs, run \in RunOutcomes :
            LET r == HandleSwitchRunning(name, run)
            IN  /\ (\/ GetProfile(fs, name).err # "nil"
                    \/ ~ValidateProfile(fs, ProfilePath(name))) =>
                       /\ r.err \in {"NotFound", "Corruption"}
                       /\ r.CurrentProfile = CurrentProfile
                       /\ r.fs = fs
                /\ r.err = "nil" => r.CurrentProfile = name)
    /\ [][(last'.op = "Switch" /\ last'.err \in {"NotFound", "Corruption"})
             => (CurrentProfile' = CurrentProfile /\ fs' = fs)]_vars

C25_Witness ==
    /\ last.op = "Switch"
    /\ last.err = "Corruption"
    /\ CurrentProfile \in ValidNames
    /\ IsDir(fs, ProfilePath(CurrentProfile))
    /\ ~ValidateProfile(fs, ProfilePath(CurrentProfile))

\* the profiles with a directory in storage
ExistingProfiles == {name \in ValidNames : IsDir(fs, ProfilePath(name))}

\* C26: whenever RenameProfile(old, new) succeeds, nothing is left at or
\* below old, the tree at new is the tree old had, file by file, and the
\* metadata read from new is the metadata old had: same description,
\* createdAt, usageCount and lastUsedAt.
C26_RenameKeepsContents ==
    \A oldName \in NameInputs, newName \in NameInputs :
        LET r == RenameProfile(oldName, newName)
            oldPath == ProfilePath(oldName)
            newPath == ProfilePath(newName)
        IN  r.err = "nil" =>
                /\ Below(r.fs, oldPath) = {}
                /\ ~ProfileExists(newName)
                /\ IsDir(r.fs, newPath)
                /\ SubTree(r.fs, newPath) = SubTree(fs, oldPath)
                /\ loadMetadataOK(r.fs, newPath) = loadMetadataOK(fs, oldPath)
                /\ loadMetadataOK(fs, oldPath) =>
                      /\ loadMetadata(r.fs, newPath) = loadMetadata(fs, oldPath)
                      /\ GetProfile(r.fs, newName).Metadata
                            = GetProfile(fs, oldName).Metadata
                /\ \A q \in DOMAIN fs \ Below(fs, oldPath) :
                      q \in DOMAIN r.fs /\ r.fs[q] = fs[q]

C26_Witness ==
    /\ last.op = "RenameProfile"
    /\ last.err = "nil"
    /\ Cardinality(ExistingProfiles) = 1
    /\ \E name \in ExistingProfiles :
          /\ GetProfile(fs, name).err = "nil"
          /\ GetProfile(fs, name).Metadata.UsageCount >= 1
          /\ GetProfile(fs, name).Metadata.LastUsed # ZeroTime
          /\ GetProfile(fs, name).Metadata.Description \in Descriptions

\* C27: whenever ImportProfile succeeds, the metadata of the new profile is
\* fresh (createdAt now, usageCount 0, lastUsedAt unset, the description
\* given) and, the source holding a metadata file, its templateName and
\* customFlags are those of that file.
C27_ImportKeepsTemplateAndFlags ==
    \A name \in NameInputs, description \in Descriptions,
       overwriteAns \in BOOLEAN, proceedAns \in BOOLEAN :
        LET r == ImportProfile(name, description, overwriteAns, proceedAns)
            imported == Unmarshal(ImportSource[<<MetadataFileName>>].data.m)
            written == loadMetadata(r.fs, ProfilePath(name))
        IN  r.err = "nil" =>
                /\ loadMetadataOK(r.fs, ProfilePath(name))
                /\ written.CreatedAt = now
                /\ written.UsageCount = 0
                /\ written.LastUsed = ZeroTime
                /\ written.Description = description
                /\ written.Template = imported.Template
                /\ written.CustomFlags = imported.CustomFlags

\* C28: an ImportProfile cancelled at a confirmation returns an error; at
\* the overwrite confirmation it leaves storage as it was; at the proceed
\* confirmation it leaves no destination directory, storage being as it was
\* but for the destination removed by a confirmed overwrite; and no
\* cancelled import step removes the source directory.
C28_ImportCancelChangesNothing ==
    /\ [](srcExists =>
            \A name \in ValidNames, description \in Descriptions :
                LET destPath == ProfilePath(name)
                IN  /\ Exists(fs, destPath) =>
                          /\ \A proceedAns \in BOOLEAN :
                                LET r == ImportProfile(name, description, FALSE, proceedAns)
                                IN  r.err = "Cancelled" /\ r.fs = fs
                          /\ LET r == ImportProfile(name, description, TRUE, FALSE)
                             IN  /\ r.err = "Cancelled"
                                 /\ Below(r.fs, destPath) = {}
                                 /\ r.fs = RemoveAll(fs, destPath)
                    /\ ~Exists(fs, destPath) =>
                          \A overwriteAns \in BOOLEAN :
                              LET r == ImportProfile(name, description, overwriteAns, FALSE)
                              IN  /\ r.err = "Cancelled"
                                  /\ r.fs = fs
                                  /\ ~Exists(r.fs, destPath))
    /\ [][(last'.op = "ImportProfile" /\ last'.err = "Cancelled")
             => srcExists' = srcExists]_vars

C28_Witness ==
    /\ last.op = "ImportProfile"
    /\ last.err = "Cancelled"
    /\ last.changed
    /\ srcExists
    /\ Cardinality(ExistingProfiles) = 1

\* the external directories imported from
ImportSources == {ImportSource, ImportSourceNoConfig}

\* C29: whenever ImportProfile succeeds, the destination holds every regular
\* file directly in the source other than the metadata file, with the same
\* bytes; holds nothing of the source's subdirectories; and holds both
\* well-known configuration files, the one the source lacks being an empty
\* object; beside these it holds only the metadata file.
C29_ImportCopiesTopLevelFiles ==
    \A src \in ImportSources, name \in NameInputs, description \in Descriptions,
       overwriteAns \in BOOLEAN :
        LET r == ImportFrom(src, name, description, overwriteAns, TRUE)
            dst == ProfilePath(name)
            files == {n \in Children(src, <<>>) : src[<<n>>].type = "file"}
        IN  r.err = "nil" =>
                /\ \A n \in files \ {MetadataFileName} :
                      /\ Exists(r.fs, Join(dst, n))
                      /\ r.fs[Join(dst, n)] = src[<<n>>]
                /\ \A n \in Children(src, <<>>) \ files : ~Exists(r.fs, Join(dst, n))
                /\ \A rel \in DOMAIN SubTree(r.fs, dst) \ {<<>>} :
                      /\ Len(rel) = 1
                      /\ r.fs[dst \o rel].type = "file"
                /\ \A n \in {ClaudeConfigFile, ClaudeSettingsFile} :
                      /\ Exists(r.fs, Join(dst, n))
                      /\ n \notin files => r.fs[Join(dst, n)] = FileNode(EmptyObject)
                /\ Children(r.fs, dst)
                      = (files \ {MetadataFileName})
                        \cup {MetadataFileName, ClaudeConfigFile, ClaudeSettingsFile}
                /\ ValidateProfile(r.fs, dst)

C29_Witness ==
    /\ last.op = "ImportProfile"
    /\ last.err = "nil"
    /\ \E name \in ValidNames :
          /\ fs[Join(ProfilePath(name), ClaudeConfigFile)]
                = ImportSource[<<ClaudeConfigFile>>]
          /\ fs[Join(ProfilePath(name), ClaudeSettingsFile)] = FileNode(EmptyObject)
          /\ Exists(fs, Join(ProfilePath(name), <<"h","i","s","t">>))
          /\ ~Exists(fs, Join(ProfilePath(name), <<"l","o","g","s">>))

\* C30: Backup of a name with no profile directory returns an error; a
\* Backup step that returns that error leaves the archives as they were; and
\* no Backup step changes anything in profile storage.
C30_BackupOfMissingProfileFails ==
    /\ [](\A profileName \in NameInputs :
            ~Exists(fs, ProfilePath(profileName)) =>
                Backup(profileName).err = "NotFound")
    /\ [][last'.op = "Backup" =>
            /\ fs' = fs
            /\ last'.err = "NotFound" => (backups' = backups /\ snap' = snap)]_vars

C30_Witness ==
    /\ last.op = "Backup"
    /\ last.err = "NotFound"
    /\ backups # <<>>
    /\ ExistingProfiles # {}

\* C31: when a write to the archive fails during the walk, Backup returns
\* an error and no archive of the name it was writing is in the backup
\* directory afterwards; the other archives are as they were.
C31_FailedBackupLeavesNoArchive ==
    \A profileName \in NameInputs, failAt \in FailPoints \ {0} :
        LET r == BackupFailing(profileName, failAt)
            backupName == BackupName(profileName, now)
        IN  (/\ Exists(fs, ProfilePath(profileName))
             /\ failAt <= Len(Walk(fs, ProfilePath(profileName)))) =>
                /\ r.err = "WalkFailed"
                /\ backupName \notin DOMAIN r.backups
                /\ DOMAIN r.backups = DOMAIN backups \ {backupName}
                /\ \A n \in DOMAIN r.backups : r.backups[n] = backups[n]

C31_Witness ==
    /\ last.op = "Backup"
    /\ last.err = "WalkFailed"
    /\ last.existed
    /\ backups = <<>>
    /\ ExistingProfiles # {}

\* a profile name that ends like an archive name
Stamped == Work \o <<"-">> \o FormatTimestamp(1)

\* C32: a successful Backup writes the archive named by the profile and the
\* clock second, holding the profile as it is at the call, and leaves every
\* other archive as it was; the archive it replaces, if any, is one taken of
\* the same profile in the same second: no archive taken of another profile
\* or in another second has the name a Backup made now would write.
C32_SameSecondBackupOverwrites ==
    /\ \A profileName \in NameInputs :
          LET r == Backup(profileName)
          IN  r.err = "nil" =>
                  /\ r.name = BackupName(profileName, now)
                  /\ r.backups[r.name] = Walk(fs, ProfilePath(profileName))
                  /\ DOMAIN r.backups = DOMAIN backups \cup {r.name}
                  /\ \A n \in DOMAIN backups \ {r.name} : r.backups[n] = backups[n]
                  /\ r.name \in DOMAIN snap =>
                        /\ snap[r.name].profileName = profileName
                        /\ snap[r.name].takenAt = now
    /\ \A n \in DOMAIN snap, p \in NameInputs \cup {Stamped} :
          BackupName(p, now) = n =>
              (p = snap[n].profileName /\ now = snap[n].takenAt)

C32_Witness ==
    /\ last.op = "Backup"
    /\ last.err = "nil"
    /\ last.existed
    /\ last.changed
    /\ Cardinality(DOMAIN backups) = 1
    /\ \E n \in DOMAIN backups, i \in 1..3 :
          /\ i <= Len(backups[n])
          /\ backups[n][i].Name = Notes

\* C33: every list List can return holds each archive it accepts once, and
\* an entry never comes before one whose file name carries a later
\* timestamp; archives Backup wrote come newest first.
C33_BackupListNewestFirst ==
    /\ ListSorted # {}
    /\ \A s \in ListSorted :
          /\ {s[i] : i \in DOMAIN s} = List
          /\ \A i \in DOMAIN s, j \in DOMAIN s :
                (/\ i < j
                 /\ TimestampOK(Timestamp(s[i].Name))
                 /\ TimestampOK(Timestamp(s[j].Name))) =>
                    /\ ParseTimestamp(Timestamp(s[i].Name))
                          >= ParseTimestamp(Timestamp(s[j].Name))
                    /\ (s[i].Name \in DOMAIN snap /\ s[j].Name \in DOMAIN snap) =>
                          snap[s[i].Name].takenAt >= snap[s[j].Name].takenAt

C33_Witness ==
    /\ last.op = "BackupList"
    /\ \E s \in ListSorted :
          /\ Len(s) >= 2
          /\ s[1].Name = Foreign
          /\ s[2].Name \in DOMAIN snap
          /\ ParseTimestamp(Timestamp(s[1].Name)) > ParseTimestamp(Timestamp(s[2].Name))

\* the names in the backup directory that do not parse into a profile name
\* and a timestamp
Unparseable ==
    {n \in DOMAIN backups :
        \/ Len(NameParts(n)) < 3
        \/ ~TimestampOK(Timestamp(n))}

\* C34: no entry of the backup directory whose name has fewer than three
\* hyphen-delimited parts, or whose last two parts are no timestamp, is in
\* the list List returns, and Cleanup removes none of them.
C34_ListSkipsUnparseable ==
    \A n \in Unparseable :
        /\ n \notin {b.Name : b \in List}
        /\ \A retentionDays \in RetentionInputs, zone \in ZoneOffsets :
              n \notin Cleanup(retentionDays, zone).removed

\* the value of key in a JSON object
Value(obj, key) == (CHOOSE kv \in obj : kv[1] = key)[2]

\* C35: after ApplyTemplate the settings file holds a JSON object with each
\* key once: every key of the template with the template's value, whatever
\* value the key had, and every other key of the previous settings with its
\* previous value; previous settings that are missing or are no JSON count
\* as empty.
C35_ApplyTemplateShallowMerge ==
    \A name \in ExistingProfiles, content \in ContentInputs :
        LET settingsPath == Join(ProfilePath(name), ClaudeSettingsFile)
            previous == IF /\ Exists(fs, settingsPath)
                           /\ fs[settingsPath].data.kind = "json"
                        THEN fs[settingsPath].data.obj ELSE {}
            after == ApplyContent(fs, ProfilePath(name), content)
            settings == after[settingsPath].data.obj
        IN  /\ after[settingsPath].data.kind = "json"
            /\ Keys(settings) = Keys(previous) \cup Keys(content)
            /\ Cardinality(settings) = Cardinality(Keys(settings))
            /\ \A tv \in content : Value(settings, tv[1]) = tv[2]
            /\ \A kv \in previous :
                  kv[1] \notin Keys(content) => Value(settings, kv[1]) = kv[2]
            /\ \A q \in DOMAIN fs \ {settingsPath} :
                  q \in DOMAIN after /\ after[q] = fs[q]

C35_Witness ==
    /\ last.op = "ApplyTemplate"
    /\ last.changed
    /\ \E name \in ExistingProfiles :
          LET settingsPath == Join(ProfilePath(name), ClaudeSettingsFile)
          IN  fs[settingsPath].data
                 = [kind |-> "json",
                    obj |-> {<<"permissions", {<<"allow", "a">>}>>,
                             <<"theme", Str("dark")>>,
                             <<"env", Str("x")>>}]

\* C36: once two processes have each called UpdateLastUsed on the same
\* profile and both calls are over, the metadata file holds the metadata
\* written last, and the usage count is one or two above the count the first
\* call read.
C36_ConcurrentUpdatesLastWriterWins ==
    LET a == procs.state[1]
        b == procs.state[2]
        first == IF a.seen < b.seen THEN a.seen ELSE b.seen
        path == ProfilePath(a.name)
    IN  (a.pc = "done" /\ b.pc = "done" /\ a.name = b.name) =>
            /\ loadMetadataOK(fs, path)
            /\ loadMetadata(fs, path) = procs.state[procs.writer].meta
            /\ loadMetadata(fs, path).UsageCount \in {first + 1, first + 2}

\* C37: Init on a system whose config file exists leaves the file, and so
\* the storage root and the active profile name it holds, as they were, and
\* leaves the Config in memory alone; a config saved with any active profile
\* name loads without error with that name.
C37_ConfigCreatedOnce ==
    /\ [](configFile.exists =>
            /\ ConfigInit(configFile) = configFile
            /\ Load(ConfigInit(configFile)).cfg = Load(configFile).cfg)
    /\ [](\A name \in NameInputs :
            /\ Load(Save(Cfg(name))).err = "nil"
            /\ Load(Save(Cfg(name))).cfg = Cfg(name))
    /\ [](last.op = "SetCurrentProfile" =>
            Load(configFile).cfg.CurrentProfile = CurrentProfile)
    /\ [][(last'.op = "Init" /\ configFile.exists) =>
             (configFile' = configFile /\ CurrentProfile' = CurrentProfile)]_vars

C37_Witness ==
    /\ last.op = "Init"
    /\ ~last.changed
    /\ configFile.exists
    /\ Load(configFile).cfg.CurrentProfile \in ValidNames
    /\ Load(configFile).cfg.ProfilesDir = DefaultProfilesDir

\* C40: DeleteProfile and RenameProfile refuse with ProtectedState exactly
\* when the name, of a profile that passed their earlier checks, is the
\* CurrentProfile of the Config in memory, whatever the config file holds:
\* the name just set through that Config is refused, and the name another
\* process has saved to the file since is not.
C40_ProtectionReadsConfigInMemory ==
    \A name \in NameInputs :
        /\ DeleteProfile(name).err = "ProtectedState"
              <=> (/\ ValidateName(name) = "nil"
                   /\ Exists(fs, ProfilePath(name))
                   /\ name = CurrentProfile)
        /\ \A newName \in NameInputs :
              RenameProfile(name, newName).err = "ProtectedState"
                 <=> (/\ ValidateName(newName) = "nil"
                      /\ ProfileExists(name)
                      /\ ~ProfileExists(newName)
                      /\ name = CurrentProfile)
        /\ (/\ ValidateName(name) = "nil"
            /\ Exists(fs, ProfilePath(name))
            /\ Load(configFile).cfg.CurrentProfile = name
            /\ CurrentProfile # name) => DeleteProfile(name).err = "nil"

C40_Witness ==
    /\ last.op = "DeleteProfile"
    /\ last.err = "nil"
    /\ Load(configFile).cfg.CurrentProfile \in ValidNames
    /\ Load(configFile).cfg.CurrentProfile # CurrentProfile
    /\ ExistingProfiles = {}

\* C39: Restore of an archive whose name has three or more parts, with or
\* without overwrite and whether or not the extraction fails, leaves every
\* path outside the directory of the derived profile name as it was; with
\* an empty derived name it leaves the whole storage root as it was.
C39_RestoreStaysInProfileDirectory ==
    \A baseName \in DOMAIN backups, overwrite \in BOOLEAN, failAt \in FailPoints :
        LET parts == NameParts(baseName)
            profileName == DerivedProfileName(parts)
            r == RestoreWith(baseName, overwrite, failAt)
        IN  ValidFormat(parts) =>
                \A q \in DOMAIN fs \cup DOMAIN r.fs :
                    (profileName = <<>> \/ ~IsPrefix(<<profileName>>, q)) =>
                        /\ q \in DOMAIN fs
                        /\ q \in DOMAIN r.fs
                        /\ r.fs[q] = fs[q]

\* what an operation naming the profiles in names must keep: every path
\* below the storage root whose first component is not one of them
Kept(f, names) ==
    \A q \in DOMAIN fs \cup DOMAIN f :
        (q # <<>> /\ q[1] \notin names) =>
            /\ q \in DOMAIN fs
            /\ q \in DOMAIN f
            /\ f[q] = fs[q]

\* C38: CreateProfile, DeleteProfile, UpdateLastUsed, CloneProfile and
\* RenameProfile, succeeding or failing, leave every directory of a profile
\* they do not name as it was, file by file, and leave the archives and the
\* config file as they were.
C38_OperationsKeepOtherProfiles ==
    /\ [](\A name \in PathInputs :
            /\ \A t \in TemplateInputs, fails \in FailSets :
                  Kept(CreateProfileFailing(name, <<"w">>, t, fails).fs, {name})
            /\ Kept(DeleteProfile(name).fs, {name})
            /\ Kept(UpdateLastUsed(fs, name).fs, {name})
            /\ \A source \in PathInputs, fails \in FailSets :
                  Kept(CloneProfileFailing(source, name, fails).fs, {name})
            /\ \A newName \in PathInputs :
                  Kept(RenameProfile(name, newName).fs, {name, newName}))
    /\ [][last'.op \in {"CreateProfile", "DeleteProfile", "UpdateLastUsed",
                        "CloneProfile", "RenameProfile"} =>
             (backups' = backups /\ configFile' = configFile)]_vars

====
